---- MODULE Spec2Model ----
(***************************************************************************)
(* minecli: the local cache (src/db.rs), the paged issue sync and the     *)
(* project sync (src/app/data_loader.rs), the lists and cursors of the    *)
(* main screen (src/app/filters.rs, src/app/handlers.rs), the create form *)
(* (src/issue_form.rs, src/app/handler_modules/form_fields.rs) and the    *)
(* event loop that drives them (src/main.rs).                             *)
(*                                                                         *)
(* The specifications share the variables:                                *)
(*   SpecDb, SpecDbTx, SpecDbClock, SpecDbStamp, SpecJournals, SpecFetch  *)
(*           the cache store alone, its operations called in any order    *)
(*           with inputs from small sets;                                 *)
(*   SpecQuery                                                            *)
(*           get_issues and get_projects called on caches of a few rows;  *)
(*   Spec    the event loop of run_app driving load_issues and            *)
(*           load_issues_next_page against a remote service;              *)
(*   SpecUncounted                                                        *)
(*           the same loop against a remote service that reports no       *)
(*           total_count;                                                 *)
(*   SpecFair                                                             *)
(*           Spec with the fairness of a loop that keeps running;         *)
(*   SpecProjects                                                         *)
(*           the event loop driving load_projects;                        *)
(*   SpecView, SpecGroups                                                 *)
(*           the event loop handling the keys of the main screen;         *)
(*   SpecForm                                                             *)
(*           the event loop handling the keys of the create form;         *)
(*   SpecBulk                                                             *)
(*           the event loop handling the keys of bulk mode and the bulk   *)
(*           update (src/app/bulk_operations.rs).                         *)
(***************************************************************************)
EXTENDS Integers, Sequences, FiniteSets, TLC

VARIABLES
    db,          \* Database: the tables of the cache file
    now,         \* the last value Utc::now() returned
    last,        \* history: the last cache operation, its input and its result
    client,                      \* App.client is Some
    selected_project,            \* App.selected_project (the project id, or NULL)
    refresh_issues,              \* App.refresh_issues
    issues_loading_in_progress,  \* App.issues_loading_in_progress
    issues_loaded_count,         \* App.issues_loaded_count
    issues_total_count,          \* App.issues_total_count
    issues_temp_buffer,          \* App.issues_temp_buffer
    loading,                     \* App.loading
    error_message,               \* App.error_message
    total_issues,                \* App.total_issues
    last_selected_project,       \* run_app: last_selected_project
    pc,                          \* run_app: the block of the loop body that runs next
    cycle,                       \* history: the requests, pages and flushes of the current sync cycle
    events,                      \* history: the number of user inputs handled
    refresh_projects,            \* App.refresh_projects
    all_projects,                \* load_projects: all_projects
    projects_offset,             \* load_projects: offset
    psync,                       \* history: the current run of load_projects
    last_projects_sync,          \* App.last_projects_sync
    total_projects,              \* App.total_projects
    filtered_projects,           \* App.filtered_projects
    projects_list_state,         \* App.projects_list_state
    filtered_issues,             \* App.filtered_issues
    issues_list_state,           \* App.issues_list_state
    project_filter,              \* App.project_filter
    issue_filter,                \* App.issue_filter
    my_issues_filter,            \* App.my_issues_filter
    current_user_id,             \* App.current_user_id
    issue_sort_order,            \* App.issue_sort_order
    group_issues_by_status,      \* App.group_issues_by_status
    status_groups_collapsed,     \* App.status_groups_collapsed: the names mapped to true
    focused_pane,                \* App.focused_pane
    current_issue,               \* App.current_issue
    show_issue_popup,            \* App.show_issue_popup
    loading_issue,               \* App.loading_issue
    comment_issue_id,            \* App.comment_issue_id, with App.add_comment_flag
    create_issue_form,           \* App.create_issue_form
    show_create_issue_form,      \* App.show_create_issue_form
    create_new_issue_flag,       \* App.create_new_issue_flag
    input_mode,                  \* App.input_mode
    bulk_operation_mode,         \* App.bulk_operation_mode
    selected_issues,             \* App.selected_issues
    bulk_edit_form,              \* App.bulk_edit_form
    execute_bulk_update_flag,    \* App.execute_bulk_update_flag
    load_users_project_id,       \* App.load_users_project_id, with App.load_users_flag
    statuses,                    \* App.statuses: the ids
    priorities,                  \* App.priorities: the ids
    app_users,                   \* App.users: the ids
    handled                      \* history: what the last step handled on the main
                                 \* screen, and the cursors it began with

dbvars == <<db, now, last>>
projvars == <<refresh_projects, all_projects, projects_offset, psync>>
(* what apply_filters assigns besides total_issues                          *)
listvars == <<last_projects_sync, total_projects, filtered_projects, projects_list_state,
              filtered_issues, issues_list_state>>
formvars == <<create_issue_form, show_create_issue_form, create_new_issue_flag,
              input_mode>>
metavars == <<statuses, priorities, app_users>>
bulkvars == <<bulk_operation_mode, selected_issues, bulk_edit_form,
              execute_bulk_update_flag, load_users_project_id, metavars>>
viewvars == <<project_filter, issue_filter, my_issues_filter, current_user_id,
              issue_sort_order, group_issues_by_status, status_groups_collapsed,
              focused_pane, current_issue, show_issue_popup, loading_issue,
              comment_issue_id, handled, formvars, bulkvars>>
appvars == <<client, selected_project, refresh_issues, issues_loading_in_progress,
             issues_loaded_count, issues_total_count, issues_temp_buffer, loading,
             error_message, total_issues, last_selected_project, pc, cycle, events,
             projvars, listvars, viewvars>>
vars == <<db, now, last, client, selected_project, refresh_issues,
          issues_loading_in_progress, issues_loaded_count, issues_total_count,
          issues_temp_buffer, loading, error_message, total_issues,
          last_selected_project, pc, cycle, events, projvars, listvars, viewvars>>

-----------------------------------------------------------------------------
(* The inputs of the cache-store specifications.                           *)
ProjectIds == {1, 2}
IssueIds == {1, 2}
Times == {1, 2}
JournalIds == {1, 2}
DetailNames == {"status_id"}
(* the longest batch handed to insert_projects and insert_issues            *)
MaxBatch == 2
(* the most details of one journal                                          *)
MaxDetails == 1
(* the values Utc::now() takes                                              *)
MaxClock == 2

(* SQL NULL and Option::None; Some(v) is Option::Some.                      *)
NULL == <<>>

Some(v) == <<v>>

BoundedSeq(S, n) == UNION {[1..k -> S] : k \in 0..n}

-----------------------------------------------------------------------------
(* Timestamps are stored as TEXT.  DateTime::to_rfc3339 writes every field  *)
(* of the date zero-padded to a fixed width, most significant first; the    *)
(* model keeps two decimal digits.  SQLite compares TEXT byte by byte.      *)
to_rfc3339(t) == <<t \div 10, t % 10>>

parse_datetime_from_db(s) == s[1] * 10 + s[2]

RECURSIVE TextLess(_, _)
TextLess(a, b) ==
    IF b = <<>> THEN FALSE
    ELSE IF a = <<>> THEN TRUE
    ELSE IF Head(a) # Head(b) THEN Head(a) < Head(b)
    ELSE TextLess(Tail(a), Tail(b))

(* Text other than timestamps is the sequence of its characters.  SQLite's *)
(* LIKE and str::to_lowercase both fold the case of the ASCII letters, the  *)
(* only letters the model's texts use.                                      *)
Digits == <<"0", "1", "2", "3", "4", "5", "6", "7", "8", "9">>
AsciiUpper ==
    <<"A", "B", "C", "D", "E", "F", "G", "H", "I", "J", "K", "L", "M",
      "N", "O", "P", "Q", "R", "S", "T", "U", "V", "W", "X", "Y", "Z">>
AsciiLower ==
    <<"a", "b", "c", "d", "e", "f", "g", "h", "i", "j", "k", "l", "m",
      "n", "o", "p", "q", "r", "s", "t", "u", "v", "w", "x", "y", "z">>
(* the characters in the order of their bytes                               *)
Ascii == <<" ", "%">> \o Digits \o AsciiUpper \o <<"_">> \o AsciiLower

Code(c) == CHOOSE k \in 1..Len(Ascii) : Ascii[k] = c

(* a < b under the BINARY collation                                         *)
RECURSIVE BinaryLess(_, _)
BinaryLess(a, b) ==
    IF b = <<>> THEN FALSE
    ELSE IF a = <<>> THEN TRUE
    ELSE IF Head(a) # Head(b) THEN Code(Head(a)) < Code(Head(b))
    ELSE BinaryLess(Tail(a), Tail(b))

ascii_lower(c) ==
    IF \E k \in 1..Len(AsciiUpper) : AsciiUpper[k] = c
    THEN AsciiLower[CHOOSE k \in 1..Len(AsciiUpper) : AsciiUpper[k] = c]
    ELSE c

to_lowercase(s) == [k \in 1..Len(s) |-> ascii_lower(s[k])]

(* str::contains: sub occurs in s as a run of consecutive characters         *)
contains(s, sub) ==
    \E k \in 0..(Len(s) - Len(sub)) : SubSeq(s, k + 1, k + Len(sub)) = sub

(* text LIKE pattern, no ESCAPE: % matches any run of characters, _ any one *)
(* character, every other character itself with ASCII case folded.          *)
RECURSIVE Like(_, _)
Like(text, pattern) ==
    IF pattern = <<>> THEN text = <<>>
    ELSE IF Head(pattern) = "%"
         THEN Like(text, Tail(pattern)) \/ (text # <<>> /\ Like(Tail(text), pattern))
    ELSE IF text = <<>> THEN FALSE
    ELSE IF Head(pattern) = "_" THEN Like(Tail(text), Tail(pattern))
    ELSE /\ ascii_lower(Head(pattern)) = ascii_lower(Head(text))
         /\ Like(Tail(text), Tail(pattern))

(* format!("%{}%", f)                                                       *)
filter_pattern(f) == <<"%">> \o f \o <<"%">>

(* a nullable TEXT column LIKE pattern: NULL, which WHERE takes as false,   *)
(* for a NULL column                                                        *)
NullableLike(col, pattern) == col # NULL /\ Like(col[1], pattern)

(* CAST(id AS TEXT): the decimal digits of id                               *)

RECURSIVE CastAsText(_)
CastAsText(n) ==
    IF n < 10 THEN <<Digits[n + 1]>>
    ELSE CastAsText(n \div 10) \o <<Digits[(n % 10) + 1]>>

(* the text of S that no text of S is greater than: the greatest first      *)
(* character, then the greatest rest among the texts that begin with it     *)
RECURSIVE GreatestText(_)
GreatestText(S) ==
    IF S = {<<>>} THEN <<>>
    ELSE LET heads == {Head(t) : t \in S \ {<<>>}}
             h == CHOOSE g \in heads : \A x \in heads : x <= g
         IN <<h>> \o GreatestText({Tail(t) : t \in {u \in S \ {<<>>} : Head(u) = h}})

(* SELECT MAX(col): NULL over no rows.                                      *)
SqlMax(S) == IF S = {} THEN NULL ELSE GreatestText(S)

(* INSERT OR REPLACE INTO t ... by primary key.                             *)
InsertOrReplace(t, id, row) ==
    [k \in (DOMAIN t) \cup {id} |-> IF k = id THEN row ELSE t[k]]

DeleteWhere(t, ids) == [k \in (DOMAIN t) \ ids |-> t[k]]

-----------------------------------------------------------------------------
(* The schema of init_schema: six tables.  A table is a function from the  *)
(* primary keys present to the rows; journal_details, whose key is an       *)
(* AUTOINCREMENT rowid, is the sequence of its rows in rowid order.  The    *)
(* other tables depend on no state of users.                                *)
EmptyDb ==
    [projects |-> <<>>, issues |-> <<>>, journals |-> <<>>,
     journal_details |-> <<>>, metadata |-> <<>>, users |-> <<>>]

(* The end of a rusqlite transaction: tx.commit() when every statement      *)
(* returned Ok, and the drop of tx (which rolls back) when a `?` returned    *)
(* early.                                                                   *)
tx_end_commit_on_drop(before, tx) == [db |-> tx.db, ok |-> ~tx.err]

tx_end(before, tx) ==
    IF tx.err THEN [db |-> before, ok |-> FALSE]
    ELSE [db |-> tx.db, ok |-> TRUE]

(* SELECT MAX(updated_on) FROM issues WHERE project_id = pid                *)
max_updated(d, pid) ==
    SqlMax({d.issues[i].updated_on :
              i \in {j \in DOMAIN d.issues : d.issues[j].project_id = pid}})

max_updated_of_batch(d, pid, issues) ==
    SqlMax({to_rfc3339(issues[k].updated_on) :
              k \in {j \in 1..Len(issues) : issues[j].project = pid}})

(* ---- insert_projects -------------------------------------------------- *)
(* SELECT last_issue_activity, last_issues_sync FROM projects WHERE id = ?1  *)
(* and existing.unwrap_or((None, None))                                     *)
existing_not_read(d, id) == <<NULL, NULL>>

existing_swapped(d, id) ==
    IF id \in DOMAIN d.projects
    THEN <<d.projects[id].last_issues_sync, d.projects[id].last_issue_activity>>
    ELSE <<NULL, NULL>>

existing(d, id) ==
    IF id \in DOMAIN d.projects
    THEN <<d.projects[id].last_issue_activity, d.projects[id].last_issues_sync>>
    ELSE <<NULL, NULL>>

(* for project in projects { SELECT ...; INSERT OR REPLACE INTO projects }:  *)
(* the row of a project keeps the two values read before it is written; a   *)
(* project that comes twice in the batch reads back what its first row      *)
(* kept, so every row keeps what the table held before the batch, and the   *)
(* later row of an id replaces the earlier one.                             *)
opt_rfc3339(t) == IF t = NULL THEN NULL ELSE to_rfc3339(t[1])

project_row(d, project) ==
    LET preserve_activity == existing(d, project.id)[1]
        preserve_sync == existing(d, project.id)[2]
    IN [name |-> project.name,
        identifier |-> project.identifier,
        description |-> project.description,
        created_on |-> opt_rfc3339(project.created_on),
        updated_on |-> opt_rfc3339(project.updated_on),
        last_issue_activity |-> preserve_activity,
        last_issues_sync |-> preserve_sync]

RECURSIVE written_project_rows(_, _, _, _)
written_project_rows(d, projects, lo, hi) ==
    IF lo > hi THEN <<>>
    ELSE IF lo = hi THEN projects[lo].id :> project_row(d, projects[lo])
    ELSE LET mid == (lo + hi) \div 2
         IN written_project_rows(d, projects, mid + 1, hi)
               @@ written_project_rows(d, projects, lo, mid)

(* the rows from the k-th project on, up to the statement that fails        *)
insert_project_rows(d, projects, k, failAt) ==
    LET failed == failAt \in k..Len(projects)
        n == IF failed THEN failAt - 1 ELSE Len(projects)
    IN [db |-> [d EXCEPT !.projects = written_project_rows(d, projects, k, n) @@ @],
        err |-> failed]

(* UPDATE projects SET last_issue_activity = (SELECT MAX(updated_on) ...)   *)
recompute_all_activity(d) ==
    [d EXCEPT !.projects =
        [p \in DOMAIN d.projects |->
            [d.projects[p] EXCEPT !.last_issue_activity = max_updated(d, p)]]]

insert_projects_unstamped(d, projects, t, failAt) ==
    LET rows == insert_project_rows(d, projects, 1, failAt)
    IN tx_end(d,
              IF rows.err THEN rows
              ELSE IF failAt = Len(projects) + 1 THEN [db |-> rows.db, err |-> TRUE]
              ELSE [db |-> recompute_all_activity(rows.db), err |-> FALSE])

insert_projects(d, projects, t, failAt) ==
    LET rows == insert_project_rows(d, projects, 1, failAt)
        stamped == [rows.db EXCEPT !.metadata =
                       InsertOrReplace(@, "projects_last_synced", to_rfc3339(t))]
    IN tx_end(d,
              IF rows.err THEN rows
              ELSE IF failAt = Len(projects) + 1 THEN [db |-> rows.db, err |-> TRUE]
              ELSE [db |-> recompute_all_activity(stamped), err |-> FALSE])

(* ---- insert_users ----------------------------------------------------- *)
(* for user in users { INSERT OR REPLACE INTO users ... }; of a users row    *)
(* the model keeps the login                                                *)
insert_users(d, users, failAt) ==
    LET failed == failAt \in 1..Len(users)
        n == IF failed THEN failAt - 1 ELSE Len(users)
        rows == [id \in {users[k].id : k \in 1..n} |->
                    [login |-> users[CHOOSE k \in 1..n :
                                       /\ users[k].id = id
                                       /\ \A j \in (k + 1)..n : users[j].id # id].login]]
    IN tx_end(d, [db |-> [d EXCEPT !.users = rows @@ @],
                  err |-> failed \/ failAt = Len(users) + 1])

(* ---- insert_issues ---------------------------------------------------- *)
(* The columns of an issues row that the model keeps; start_date and the    *)
(* name of the project are among the fields of Issue that have no column.   *)
(* status.name, priority.id and assigned_to.map(|a| a.id) are the fields    *)
(* status_name, priority_id and assigned_to_id of the model's Issue.        *)
issue_row(issue) ==
    [project_id |-> issue.project,
     status_name |-> issue.status_name,
     priority_id |-> issue.priority_id,
     assigned_to_id |-> issue.assigned_to_id,
     subject |-> issue.subject,
     description |-> issue.description,
     updated_on |-> to_rfc3339(issue.updated_on)]

(* for issue in issues { INSERT OR REPLACE INTO issues ... }: the rows of    *)
(* issues[lo..hi] by id; of two rows written under one id the later one     *)
(* replaces the earlier one (the table to the left of @@ wins).  A run of   *)
(* consecutive ids, each written once, is taken in one piece.               *)
RECURSIVE written_rows(_, _, _)
written_rows(issues, lo, hi) ==
    IF lo > hi THEN <<>>
    ELSE IF lo = hi
         THEN issues[lo].id :> issue_row(issues[lo])
    ELSE IF \A k \in lo..hi : issues[k].id = issues[lo].id + (k - lo)
         THEN [i \in issues[lo].id..(issues[lo].id + (hi - lo)) |->
                  issue_row(issues[i - issues[lo].id + lo])]
    ELSE LET mid == (lo + hi) \div 2
         IN written_rows(issues, mid + 1, hi) @@ written_rows(issues, lo, mid)

(* The loop runs to the end, or to the statement that fails.                *)
(* the writes with journals dropped along with a replaced issues row        *)
insert_issue_rows_cascade(d, issues, failAt) ==
    LET failed == failAt \in 1..Len(issues)
        n == IF failed THEN failAt - 1 ELSE Len(issues)
        rows == written_rows(issues, 1, n)
        gone == {j \in DOMAIN d.journals : d.journals[j].issue_id \in DOMAIN rows}
    IN [db |-> [d EXCEPT !.issues = rows @@ @,
                         !.journals = DeleteWhere(@, gone),
                         !.journal_details =
                             SelectSeq(@, LAMBDA r : r.journal_id \notin gone)],
        err |-> failed]

insert_issue_rows(d, issues, failAt) ==
    LET failed == failAt \in 1..Len(issues)
        n == IF failed THEN failAt - 1 ELSE Len(issues)
    IN [db |-> [d EXCEPT !.issues = written_rows(issues, 1, n) @@ @],
        err |-> failed]

batch_project_ids(issues) == {issues[k].project : k \in 1..Len(issues)}

activity_for_batch_only(d, pid, issues) == max_updated_of_batch(d, pid, issues)

(* The activity the loop over project_ids writes for project pid.           *)
activity_for(d, pid, issues) == max_updated(d, pid)

insert_issues(d, issues, t, failAt) ==
    LET rows == insert_issue_rows(d, issues, failAt)
        project_ids == batch_project_ids(issues)
        \* row.get::<String> of a NULL maximum is an error, which `?` returns
        null_max == \E pid \in project_ids : activity_for(rows.db, pid, issues) = NULL
        updated == [rows.db EXCEPT !.projects =
                      [p \in DOMAIN rows.db.projects |->
                          IF p \in project_ids
                          THEN [rows.db.projects[p] EXCEPT
                                  !.last_issue_activity = activity_for(rows.db, p, issues),
                                  !.last_issues_sync = to_rfc3339(t)]
                          ELSE rows.db.projects[p]]]
    IN tx_end(d,
              IF rows.err THEN rows
              ELSE IF null_max \/ failAt = Len(issues) + 1
                   THEN [db |-> rows.db, err |-> TRUE]
              ELSE [db |-> updated, err |-> FALSE])

(* ---- insert_issue_with_journals --------------------------------------- *)
journal_ids_of_issue(d, issue_id) ==
    {j \in DOMAIN d.journals : d.journals[j].issue_id = issue_id}

RECURSIVE detail_rows(_, _, _)
detail_rows(journal_id, details, k) ==
    IF k > Len(details) THEN <<>>
    ELSE <<[journal_id |-> journal_id, name |-> details[k]]>>
         \o detail_rows(journal_id, details, k + 1)

(* DELETE FROM journal_details WHERE journal_id IN (...); DELETE FROM       *)
(* journals WHERE issue_id = ?1                                             *)
delete_journals_kept(d, issue_id) == d

delete_journals(d, issue_id) ==
    LET ids == journal_ids_of_issue(d, issue_id)
    IN [d EXCEPT
          !.journal_details = SelectSeq(@, LAMBDA r : r.journal_id \notin ids),
          !.journals = DeleteWhere(@, ids)]

RECURSIVE insert_journal_rows(_, _, _, _, _)
insert_journal_rows(d, issue_id, journals, k, failAt) ==
    IF k > Len(journals) THEN [db |-> d, err |-> FALSE]
    ELSE IF k + 1 = failAt THEN [db |-> d, err |-> TRUE]
    ELSE LET journal == journals[k]
         IN \* INSERT INTO journals: id is the primary key, no OR REPLACE
            IF journal.id \in DOMAIN d.journals THEN [db |-> d, err |-> TRUE]
            ELSE insert_journal_rows(
                    [d EXCEPT
                       !.journals = InsertOrReplace(@, journal.id,
                                        [issue_id |-> issue_id,
                                         created_on |-> to_rfc3339(journal.created_on)]),
                       !.journal_details =
                           @ \o detail_rows(journal.id, journal.details, 1)],
                    issue_id, journals, k + 1, failAt)

insert_issue_with_journals(d, issue, t, failAt) ==
    LET d1 == [d EXCEPT !.issues = InsertOrReplace(@, issue.id, issue_row(issue))]
        d2 == delete_journals(d1, issue.id)
        rows == insert_journal_rows(d2, issue.id, issue.journals, 1, failAt)
        updated == [rows.db EXCEPT !.projects =
                      [p \in DOMAIN rows.db.projects |->
                          IF p = issue.project
                          THEN [rows.db.projects[p] EXCEPT
                                  !.last_issue_activity = to_rfc3339(issue.updated_on),
                                  !.last_issues_sync = to_rfc3339(t)]
                          ELSE rows.db.projects[p]]]
    IN tx_end(d,
              IF failAt = 1 THEN [db |-> d, err |-> TRUE]
              ELSE IF rows.err THEN rows
              ELSE IF failAt = Len(issue.journals) + 2 THEN [db |-> rows.db, err |-> TRUE]
              ELSE [db |-> updated, err |-> FALSE])

(* ---- get_issue_with_journals ------------------------------------------ *)
(* SELECT ... FROM journals WHERE issue_id = ?1 ORDER BY created_on ASC:    *)
(* the journal ids of the issue in an order ascending in the created_on     *)
(* text; rows of equal created_on come in an order the query leaves open.   *)
JournalOrders(d, issue_id) ==
    LET ids == journal_ids_of_issue(d, issue_id)
        n == Cardinality(ids)
    IN {s \in [1..n -> ids] :
          /\ \A a, b \in 1..n : a # b => s[a] # s[b]
          /\ \A a, b \in 1..n :
                a < b => ~TextLess(d.journals[s[b]].created_on,
                                   d.journals[s[a]].created_on)}

(* SELECT property, name, ... FROM journal_details WHERE journal_id = ?1    *)
details_of_journal(d, journal_id) ==
    LET rows == SelectSeq(d.journal_details, LAMBDA r : r.journal_id = journal_id)
    IN [k \in 1..Len(rows) |-> rows[k].name]

(* Ok(None) for an id with no row; otherwise the Issue rebuilt from the     *)
(* row: project: IdName { id, name: String::new() }, start_date: None       *)
(* ("Not stored in DB yet"), and the journals read in the given order.      *)
get_issue_with_journals(d, issue_id, order) ==
    IF issue_id \notin DOMAIN d.issues THEN NULL
    ELSE LET row == d.issues[issue_id]
         IN Some([id |-> issue_id,
                  project |-> row.project_id,
                  project_name |-> <<>>,
                  status_name |-> row.status_name,
                  priority_id |-> row.priority_id,
                  assigned_to_id |-> row.assigned_to_id,
                  subject |-> row.subject,
                  description |-> row.description,
                  start_date |-> NULL,
                  updated_on |-> parse_datetime_from_db(row.updated_on),
                  journals |->
                     [k \in 1..Len(order) |->
                        [id |-> order[k],
                         created_on |->
                            parse_datetime_from_db(d.journals[order[k]].created_on),
                         details |-> details_of_journal(d, order[k])]]])

(* ---- clear_project_issues: three statements, no transaction ----------- *)
issue_ids_of_project(d, project_id) ==
    {i \in DOMAIN d.issues : d.issues[i].project_id = project_id}

(* SELECT j.id FROM journals j JOIN issues i ON j.issue_id = i.id           *)
(* WHERE i.project_id = ?1                                                  *)
journal_ids_of_project(d, project_id) ==
    {j \in DOMAIN d.journals : d.journals[j].issue_id \in issue_ids_of_project(d, project_id)}

(* DELETE FROM journals without the WHERE issue_id IN (...)                 *)
journals_to_delete_all(d, project_id) == DOMAIN d.journals

(* DELETE FROM journals WHERE issue_id IN (SELECT id FROM issues WHERE      *)
(* project_id = ?1)                                                         *)
journals_to_delete(d, project_id) == journal_ids_of_project(d, project_id)

clear_project_issues(d, project_id, failAt) ==
    LET issue_ids == issue_ids_of_project(d, project_id)
        journal_ids == journal_ids_of_project(d, project_id)
        d1 == [d EXCEPT !.journal_details =
                  SelectSeq(@, LAMBDA r : r.journal_id \notin journal_ids)]
        d2 == [d1 EXCEPT !.journals = DeleteWhere(@, journals_to_delete(d1, project_id))]
        d3 == [d2 EXCEPT !.issues = DeleteWhere(@, issue_ids)]
    IN CASE failAt = 1 -> [db |-> d, ok |-> FALSE]
         [] failAt = 2 -> [db |-> d1, ok |-> FALSE]
         [] failAt = 3 -> [db |-> d2, ok |-> FALSE]
         [] OTHER -> [db |-> d3, ok |-> TRUE]

(* ---- update_project_last_activity: one statement ---------------------- *)
update_project_last_activity(d, project_id, last_activity, failAt) ==
    IF failAt = 1 THEN [db |-> d, ok |-> FALSE]
    ELSE [db |-> [d EXCEPT !.projects =
                    [p \in DOMAIN d.projects |->
                        IF p = project_id
                        THEN [d.projects[p] EXCEPT
                                !.last_issue_activity = to_rfc3339(last_activity)]
                        ELSE d.projects[p]]],
          ok |-> TRUE]

-----------------------------------------------------------------------------
(* The cache store on its own.  Four specifications call its write          *)
(* operations in any order:                                                 *)
(*   SpecDb        issues of two projects with two update times; the only   *)
(*                 failures are the ones the statements themselves raise;   *)
(*   SpecDbTx      a storage-engine error may stop any statement of the     *)
(*                 three operations that run in a transaction;              *)
(*   SpecDbClock   the clock advances between the operations;               *)
(*   SpecJournals  issues with journals and journal details.                *)

(* last: the operation, whether it returned Ok, the stage at which an error *)
(* was injected, the project ids of a batch or an issue handed in, and for  *)
(* insert_issue_with_journals the issue id, the journals handed in and the  *)
(* journal ids the issue had before the call and the Issue handed in; for   *)
(* clear_project_issues the journal ids the project had before the call;    *)
(* get_issue_with_journals the issue id asked for and the value returned.   *)
NoOp == [op |-> "none", ok |-> TRUE, failAt |-> 0, projects |-> {}, issue |-> 0,
         journals |-> <<>>, replaced |-> {}, input |-> NULL, fetched |-> NULL]

(* history keeps of failAt whether the error came at the first statement    *)
(* (1) or after a statement had run (2)                                     *)
Stage(failAt) == IF failAt > 1 THEN 2 ELSE failAt

(* the texts of the inputs                                                  *)
Alpha == <<"A", "l", "p", "h", "a">>
AlphaId == <<"a", "l", "p", "h", "a">>
Bug == <<"B", "u", "g">>
New == <<"N", "e", "w">>

DistinctIds(js) == \A a, b \in 1..Len(js) : a # b => js[a].id # js[b].id

ProjectInputs ==
    [id : ProjectIds, name : {Alpha}, identifier : {AlphaId}, description : {NULL},
     created_on : {NULL}, updated_on : {NULL}]
IssueInputs(ids, times) ==
    [id : ids, project : ProjectIds, project_name : {Alpha}, subject : {Bug},
     status_name : {New}, priority_id : {2}, assigned_to_id : {NULL}, description : {NULL},
     start_date : {NULL}, updated_on : times, journals : {<<>>}]
JournalInputs ==
    [id : JournalIds, created_on : {1}, details : BoundedSeq(DetailNames, MaxDetails)]
(* the journals of one issue as the remote service sends them: each journal *)
(* id once                                                                  *)
JournalLists ==
    {js \in BoundedSeq(JournalInputs, Cardinality(JournalIds)) : DistinctIds(js)}
IssueDetailInputs ==
    [id : IssueIds, project : {1}, project_name : {Alpha}, subject : {Bug},
     status_name : {New}, priority_id : {2}, assigned_to_id : {NULL}, description : {NULL},
     start_date : {NULL}, updated_on : {1}, journals : JournalLists]

(* where a storage-engine error is injected: statement failAt, 0 for none   *)
NoFailure == FALSE
AnyFailure == TRUE
FailAt(inject, n) == IF inject THEN 0..n ELSE {0}

(* history of the current sync cycle: the offsets requested, the pages      *)
(* received (concatenated), the batches handed to insert_issues, the        *)
(* requests not yet answered, the kind and length of the last response,     *)
(* what load_issues_next_page returned in this step, how load_issues found  *)
(* the controller in this step, whether this cycle, and the one before it,  *)
(* ended in a failed fetch with pages buffered, the cache when the cycle    *)
(* began, whether insert_issues returned Err in this step, and the project  *)
(* that was selected when the cycle began.                                  *)
NoCycle ==
    [requests |-> <<>>, pages |-> <<>>, flushes |-> <<>>, outstanding |-> 0,
     resp |-> "none", received |-> 0, ret |-> "none", began |-> "none",
     failed_with_pages |-> FALSE, after_failure |-> FALSE, db_at_begin |-> EmptyDb,
     store_failed |-> FALSE, project |-> NULL]

(* history of the current run of load_projects: the pages received          *)
(* (concatenated), the arguments of its calls of insert_projects and        *)
(* whether the call returned Ok, whether a page fetch failed, the number of *)
(* calls of get_recent_issues, whether fetching the recent issues, caching  *)
(* them or setting an activity date failed, error_message when the          *)
(* recent-issues fetch was sent, the cache when the run began, the last     *)
(* status message the run set, and what load_projects returned.             *)
NoProjectsSync ==
    [pages |-> <<>>, upserts |-> <<>>, stored |-> FALSE, fetch_failed |-> FALSE,
     recent_requests |-> 0, enrich_failed |-> FALSE, error_before |-> NULL,
     db_at_begin |-> EmptyDb, status |-> <<"none", 0>>, ret |-> "none"]

NotHandled == [by |-> "none", projects_before |-> 0, issues_before |-> 0]

(* App::new, without the client                                             *)
AppNew ==
    /\ selected_project = NULL
    /\ refresh_issues = FALSE
    /\ issues_loading_in_progress = FALSE
    /\ issues_loaded_count = 0
    /\ issues_total_count = 0
    /\ issues_temp_buffer = <<>>
    /\ loading = FALSE
    /\ error_message = NULL
    /\ last_selected_project = NULL
    /\ cycle = NoCycle
    /\ events = 0
    /\ refresh_projects = FALSE
    /\ all_projects = <<>>
    /\ projects_offset = 0
    /\ psync = NoProjectsSync
    /\ projects_list_state = 0
    /\ issues_list_state = 0
    /\ project_filter = <<>>
    /\ issue_filter = <<>>
    /\ my_issues_filter = FALSE
    /\ current_user_id = NULL
    /\ issue_sort_order = "UpdatedDesc"
    /\ group_issues_by_status = FALSE
    /\ status_groups_collapsed = {}
    /\ focused_pane = "Projects"
    /\ current_issue = NULL
    /\ show_issue_popup = FALSE
    /\ loading_issue = FALSE
    /\ comment_issue_id = NULL
    /\ create_issue_form = NULL
    /\ show_create_issue_form = FALSE
    /\ create_new_issue_flag = FALSE
    /\ input_mode = "Normal"
    /\ bulk_operation_mode = FALSE
    /\ selected_issues = {}
    /\ bulk_edit_form = NULL
    /\ execute_bulk_update_flag = FALSE
    /\ load_users_project_id = NULL
    /\ statuses = <<>>
    /\ priorities = <<>>
    /\ app_users = <<>>
    /\ handled = NotHandled

(* the lists as App::new leaves them                                        *)
NotLoaded ==
    /\ last_projects_sync = NULL
    /\ total_projects = 0
    /\ filtered_projects = <<>>
    /\ total_issues = 0
    /\ filtered_issues = <<>>

AppInit ==
    /\ client = TRUE
    /\ pc = "refresh_issues"
    /\ AppNew
    /\ NotLoaded

InitDb ==
    /\ db = EmptyDb
    /\ now = 1
    /\ last = NoOp
    /\ AppInit

(* Utc::now() moves on between two calls.                                   *)
ClockTick ==
    /\ now < MaxClock
    /\ now' = now + 1
    /\ last' = NoOp
    /\ UNCHANGED <<db, appvars>>

DbInsertProjects(inject) ==
    \E projects \in BoundedSeq(ProjectInputs, MaxBatch) :
      \E failAt \in FailAt(inject, Len(projects) + 1) :
        LET r == insert_projects(db, projects, now, failAt)
        IN /\ db' = r.db
           /\ last' = [NoOp EXCEPT !.op = "insert_projects", !.ok = r.ok,
                         !.failAt = Stage(failAt),
                         !.projects = {projects[k].id : k \in 1..Len(projects)}]
           /\ UNCHANGED <<now, appvars>>

DbInsertIssues(Inputs, inject) ==
    \E issues \in BoundedSeq(Inputs, MaxBatch) :
      \E failAt \in FailAt(inject, Len(issues) + 1) :
        LET r == insert_issues(db, issues, now, failAt)
        IN /\ db' = r.db
           /\ last' = [NoOp EXCEPT !.op = "insert_issues", !.ok = r.ok,
                         !.failAt = Stage(failAt),
                         !.projects = batch_project_ids(issues)]
           /\ UNCHANGED <<now, appvars>>

DbInsertIssueWithJournals(Inputs, inject) ==
    \E issue \in Inputs :
      \E failAt \in FailAt(inject, Len(issue.journals) + 2) :
        LET r == insert_issue_with_journals(db, issue, now, failAt)
        IN /\ db' = r.db
           /\ last' = [NoOp EXCEPT !.op = "insert_issue_with_journals", !.ok = r.ok,
                         !.failAt = Stage(failAt),
                         !.projects = {issue.project}, !.issue = issue.id,
                         !.journals = issue.journals,
                         !.replaced = journal_ids_of_issue(db, issue.id),
                         !.input = Some(issue)]
           /\ UNCHANGED <<now, appvars>>

DbClearProjectIssues(inject) ==
    \E project_id \in ProjectIds, failAt \in FailAt(inject, 3) :
        LET r == clear_project_issues(db, project_id, failAt)
        IN /\ db' = r.db
           /\ last' = [NoOp EXCEPT !.op = "clear_project_issues", !.ok = r.ok,
                         !.failAt = Stage(failAt),
                         !.replaced = journal_ids_of_project(db, project_id)]
           /\ UNCHANGED <<now, appvars>>

DbUpdateProjectLastActivity(inject) ==
    \E project_id \in ProjectIds, t \in Times, failAt \in FailAt(inject, 1) :
        LET r == update_project_last_activity(db, project_id, t, failAt)
        IN /\ db' = r.db
           /\ last' = [NoOp EXCEPT !.op = "update_project_last_activity", !.ok = r.ok,
                         !.failAt = Stage(failAt)]
           /\ UNCHANGED <<now, appvars>>

(* issue 1 is reported under either project (it moves), issue 2 under       *)
(* project 1                                                                *)
MovingIssueInputs ==
    {i \in IssueInputs(IssueIds, Times) : i.id = 1 \/ i.project = 1}

NextDb ==
    \/ DbInsertProjects(NoFailure)
    \/ DbInsertIssues(MovingIssueInputs, NoFailure)
    \/ DbInsertIssueWithJournals(MovingIssueInputs, NoFailure)
    \/ DbClearProjectIssues(NoFailure)
    \/ DbUpdateProjectLastActivity(NoFailure)

SpecDb == InitDb /\ [][NextDb]_vars

(* issues of project 1 whose journals carry no details                      *)
IssueJournalInputs ==
    {i \in IssueDetailInputs :
        \A k \in 1..Len(i.journals) : i.journals[k].details = <<>>}

NextDbTx ==
    \/ DbInsertProjects(AnyFailure)
    \/ DbInsertIssues(IssueInputs({1}, {1}), AnyFailure)
    \/ DbInsertIssueWithJournals(IssueJournalInputs, AnyFailure)
    \/ DbClearProjectIssues(NoFailure)

SpecDbTx == InitDb /\ [][NextDbTx]_vars

NextDbClock ==
    \/ ClockTick
    \/ DbInsertProjects(NoFailure)
    \/ DbInsertIssues(IssueInputs({1}, {1}), NoFailure)
    \/ DbInsertIssueWithJournals(IssueInputs({1}, {1}), NoFailure)
    \/ DbClearProjectIssues(NoFailure)
    \/ DbUpdateProjectLastActivity(NoFailure)

SpecDbClock == InitDb /\ [][NextDbClock]_vars

InitJournals ==
    /\ db = [EmptyDb EXCEPT !.projects =
                InsertOrReplace(@, 1, [name |-> Alpha, identifier |-> AlphaId, description |-> NULL,
                       created_on |-> NULL, updated_on |-> NULL,
                       last_issue_activity |-> NULL,
                                       last_issues_sync |-> NULL])]
    /\ now = 1
    /\ last = NoOp
    /\ AppInit

NextJournals ==
    \/ DbInsertIssueWithJournals(IssueDetailInputs, NoFailure)
    \/ DbInsertIssues(IssueInputs(IssueIds, {1}), NoFailure)
    \/ DbClearProjectIssues(NoFailure)

SpecJournals == InitJournals /\ [][NextJournals]_vars

DbGetIssueWithJournals ==
    \E issue_id \in IssueIds :
      \E order \in JournalOrders(db, issue_id) :
        /\ last' = [NoOp EXCEPT !.op = "get_issue_with_journals",
                      !.issue = issue_id,
                      !.fetched = get_issue_with_journals(db, issue_id, order)]
        /\ UNCHANGED <<db, now, appvars>>

(* issue 1 of project 1 as the remote service describes it in full: a       *)
(* project name, a start date or none, journals created at either time;     *)
(* issue 2 is never stored                                                  *)
FetchJournalInputs ==
    [id : JournalIds, created_on : Times, details : BoundedSeq(DetailNames, MaxDetails)]
FetchJournalLists ==
    {js \in BoundedSeq(FetchJournalInputs, Cardinality(JournalIds)) : DistinctIds(js)}
FetchIssueInputs ==
    [id : {1}, project : {1}, project_name : {Alpha}, subject : {Bug},
     status_name : {New}, priority_id : {2}, assigned_to_id : {NULL}, description : {NULL},
     start_date : {NULL, Some(1)}, updated_on : {1}, journals : FetchJournalLists]

NextFetch ==
    \/ DbInsertIssueWithJournals(FetchIssueInputs, NoFailure)
    \/ DbInsertIssues(IssueInputs({1}, {1}), NoFailure)
    \/ DbGetIssueWithJournals
    \/ DbClearProjectIssues(NoFailure)

SpecFetch == InitJournals /\ [][NextFetch]_vars

-----------------------------------------------------------------------------
(* Properties of the cache store.                                           *)

IssuesOfProject(d, p) == {i \in DOMAIN d.issues : d.issues[i].project_id = p}

(* The latest updated_on, as a time, among the issues cached for project p; *)
(* NULL when none is cached.                                                *)
LatestUpdate(d, p) ==
    LET times == {parse_datetime_from_db(d.issues[i].updated_on) :
                    i \in IssuesOfProject(d, p)}
    IN IF times = {} THEN NULL
       ELSE Some(CHOOSE m \in times : \A x \in times : x <= m)

ActivityOf(d, p) ==
    IF d.projects[p].last_issue_activity = NULL THEN NULL
    ELSE Some(parse_datetime_from_db(d.projects[p].last_issue_activity))

(* C5: in every reachable cache state each project's last_issue_activity is *)
(* the maximum updated_on over the issues cached for that project, and is   *)
(* null when no issue of that project is cached.                            *)
C5_ActivityIsMaxOfCachedIssues ==
    \A p \in DOMAIN db.projects : ActivityOf(db, p) = LatestUpdate(db, p)

(* C6: insert_projects called with a copy of a cached project leaves the    *)
(* last_issue_activity that project had, however it was written.            *)
C6_RefreshKeepsActivity ==
    [][(last'.op = "insert_projects" /\ last'.ok) =>
         \A p \in last'.projects \cap DOMAIN db.projects :
            db.projects[p].last_issue_activity # NULL =>
              db'.projects[p].last_issue_activity = db.projects[p].last_issue_activity]_vars

(* C7: after a successful insert_issues every project that has a row and is *)
(* the project of an issue of the batch has last_issue_activity equal to    *)
(* the latest updated_on over all issues then cached for it; the other      *)
(* projects keep their last_issue_activity.                                 *)
C7_UpsertIssuesRecomputesActivity ==
    [][(last'.op = "insert_issues" /\ last'.ok) =>
         /\ DOMAIN db'.projects = DOMAIN db.projects
         /\ \A p \in DOMAIN db'.projects :
              IF p \in last'.projects
              THEN ActivityOf(db', p) = LatestUpdate(db', p)
              ELSE db'.projects[p].last_issue_activity
                     = db.projects[p].last_issue_activity]_vars

(* a batch for one project was stored, that project holds two issues with   *)
(* different update times, and another project has an activity time         *)
C7_Witness ==
    /\ last.op = "insert_issues" /\ last.ok
    /\ \E p \in last.projects \cap DOMAIN db.projects :
         /\ \E i, j \in IssuesOfProject(db, p) :
                db.issues[i].updated_on # db.issues[j].updated_on
         /\ \E q \in (DOMAIN db.projects) \ last.projects :
                db.projects[q].last_issue_activity # NULL

(* C8: last_issues_sync of a cached project changes only in a successful    *)
(* insert_issues or insert_issue_with_journals, and only for the projects   *)
(* of the issues that call wrote; insert_projects leaves it unchanged, and  *)
(* a project it inserts has none.                                           *)
C8_SyncStampOnlyByIssueWrites ==
    [][\A p \in DOMAIN db'.projects :
         LET before == IF p \in DOMAIN db.projects
                       THEN db.projects[p].last_issues_sync ELSE NULL
         IN db'.projects[p].last_issues_sync # before =>
              /\ last'.op \in {"insert_issues", "insert_issue_with_journals"}
              /\ last'.ok
              /\ p \in last'.projects]_vars

(* insert_projects rewrote a project that had a sync stamp, at a later time *)
C8_Witness ==
    /\ last.op = "insert_projects" /\ last.ok
    /\ \E p \in last.projects :
         /\ db.projects[p].last_issues_sync # NULL
         /\ db.projects[p].last_issues_sync # to_rfc3339(now)

(* C9: insert_projects, insert_issues and insert_issue_with_journals are    *)
(* all-or-nothing: a call that returns an error leaves every table as it    *)
(* was before the call.                                                     *)
C9_FailedBatchChangesNothing ==
    [][(/\ last'.op \in {"insert_projects", "insert_issues",
                         "insert_issue_with_journals"}
        /\ ~last'.ok) => db' = db]_vars

(* a batch failed after its first row had been written: the project of the  *)
(* batch is not in the cache                                                *)
C9_Witness ==
    /\ last.op = "insert_projects" /\ ~last.ok /\ last.failAt > 1
    /\ \E p \in last.projects : p \notin DOMAIN db.projects

RECURSIVE FlattenDetails(_, _)
FlattenDetails(journals, k) ==
    IF k > Len(journals) THEN <<>>
    ELSE detail_rows(journals[k].id, journals[k].details, 1)
         \o FlattenDetails(journals, k + 1)

(* C10: after a successful insert_issue_with_journals the journals cached   *)
(* for the issue are exactly the journals handed in, and the detail rows of *)
(* the issue's journals are exactly their details: nothing of an earlier    *)
(* journal set remains.                                                     *)
C10_JournalsReplacedWholesale ==
    (last.op = "insert_issue_with_journals" /\ last.ok) =>
        LET ids == {last.journals[k].id : k \in 1..Len(last.journals)}
        IN /\ journal_ids_of_issue(db, last.issue) = ids
           /\ SelectSeq(db.journal_details,
                        LAMBDA r : r.journal_id \in ids \cup last.replaced)
                = FlattenDetails(last.journals, 1)

(* the second call replaced a journal set: a journal with a detail is gone, *)
(* and a journal that stays lost its detail                                 *)
C10_Witness ==
    /\ last.op = "insert_issue_with_journals" /\ last.ok
    /\ \E j \in last.replaced : j \notin DOMAIN db.journals
    /\ \E k \in 1..Len(last.journals) :
         /\ last.journals[k].id \in last.replaced
         /\ last.journals[k].details = <<>>
    /\ Len(last.journals) > 0

(* ---- reading an issue back -------------------------------------------- *)
(* the fetched journals are the inserted ones, each with its details, in    *)
(* ascending order of creation time                                         *)
SameJournals(inserted, fetched) ==
    /\ Len(fetched) = Len(inserted)
    /\ \A k \in 1..Len(inserted) : \E m \in 1..Len(fetched) : fetched[m] = inserted[k]
    /\ \A a, b \in 1..Len(fetched) : a < b => fetched[a].created_on <= fetched[b].created_on

ScalarFields ==
    {"id", "project", "project_name", "status_name", "priority_id", "assigned_to_id",
     "subject", "description", "start_date", "updated_on"}
SameScalars(inserted, fetched) == \A f \in ScalarFields : fetched[f] = inserted[f]

FetchAfterStore ==
    /\ last.op = "insert_issue_with_journals" /\ last.ok
    /\ last'.op = "get_issue_with_journals" /\ last'.issue = last.issue

FetchOfUncached ==
    /\ last'.op = "get_issue_with_journals"
    /\ last'.issue \notin DOMAIN db.issues

(* C11: an issue stored by insert_issue_with_journals and fetched by        *)
(* get_issue_with_journals comes back with exactly its journals, ascending  *)
(* in creation time, each with its details, and with every scalar field     *)
(* equal to what was inserted; the fetch of an id that is not cached        *)
(* returns none.                                                            *)
C11_FetchReturnsWhatWasStored ==
    [][/\ FetchAfterStore =>
            /\ last'.fetched # NULL
            /\ SameJournals(last.input[1].journals, last'.fetched[1].journals)
            /\ SameScalars(last.input[1], last'.fetched[1])
       /\ FetchOfUncached => last'.fetched = NULL]_vars

(* the part of C11 about journals, details, the columns the row keeps and   *)
(* the uncached id                                                          *)
StoredFields ==
    {"id", "project", "status_name", "priority_id", "assigned_to_id", "subject",
     "description", "updated_on"}
C11_FetchReturnsStoredColumns ==
    [][/\ FetchAfterStore =>
            /\ last'.fetched # NULL
            /\ SameJournals(last.input[1].journals, last'.fetched[1].journals)
            /\ \A f \in StoredFields : last'.fetched[1][f] = last.input[1][f]
       /\ FetchOfUncached => last'.fetched = NULL]_vars

(* ---- clearing a project -------------------------------------------- *)
DetailsOf(d, journal_ids) ==
    SelectSeq(d.journal_details, LAMBDA r : r.journal_id \in journal_ids)

(* what a successful clear_project_issues(pid) leaves, from d to e          *)
Cleared(d, e, pid) ==
    LET gone_issues == issue_ids_of_project(d, pid)
        gone_journals == journal_ids_of_project(d, pid)
        kept_issues == DOMAIN d.issues \ gone_issues
        kept_journals == DOMAIN d.journals \ gone_journals
    IN /\ issue_ids_of_project(e, pid) = {}
       /\ \A j \in DOMAIN e.journals : e.journals[j].issue_id \notin gone_issues
       /\ \A k \in 1..Len(e.journal_details) :
             e.journal_details[k].journal_id \notin gone_journals
       /\ DOMAIN e.issues = kept_issues
       /\ \A i \in kept_issues : e.issues[i] = d.issues[i]
       /\ DOMAIN e.journals = kept_journals
       /\ \A j \in kept_journals : e.journals[j] = d.journals[j]
       /\ e.journal_details = DetailsOf(d, kept_journals)

(* C12: after clear_project_issues(pid) returns Ok no issue of pid is       *)
(* cached, nor a journal of such an issue, nor a detail of such a journal,  *)
(* and the issues, journals and details of other projects are as before.    *)
C12_ClearRemovesOneProject ==
    [][\A pid \in ProjectIds :
          (/\ last'.op = "clear_project_issues" /\ last'.ok
           /\ db' = clear_project_issues(db, pid, 0).db)
          => Cleared(db, db', pid)]_vars

(* a clear took the journals of one project away and left an issue of       *)
(* another project with its journal and the journal's detail                *)
C12_Witness ==
    /\ last.op = "clear_project_issues" /\ last.ok
    /\ last.replaced # {}
    /\ \E j \in DOMAIN db.journals :
         /\ db.journals[j].issue_id \in DOMAIN db.issues
         /\ Len(DetailsOf(db, {j})) > 0

(* ---- journals under insert_issues ----------------------------------- *)
(* the journals and details get_issue_with_journals returns for every       *)
(* cached issue, in every order the query may give, are the same in e as    *)
(* in d                                                                     *)
SameFetchedJournals(d, e) ==
    \A i \in DOMAIN d.issues :
       /\ i \in DOMAIN e.issues
       /\ JournalOrders(e, i) = JournalOrders(d, i)
       /\ \A order \in JournalOrders(d, i) :
             get_issue_with_journals(e, i, order)[1].journals
                = get_issue_with_journals(d, i, order)[1].journals

(* C13: insert_issues never changes the journals or the journal details;    *)
(* an issue with cached journals that is upserted again is fetched with     *)
(* the same journals and details as before.                                 *)
C13_UpsertIssuesKeepsJournals ==
    [][last'.op = "insert_issues" =>
          /\ db'.journals = db.journals
          /\ db'.journal_details = db.journal_details
          /\ SameFetchedJournals(db, db')]_vars

(* a batch of insert_issues moved to project 2 the one issue that is        *)
(* cached, and the issue has two journals created at different times, one   *)
(* of them with a detail                                                    *)
C13_Witness ==
    /\ last.op = "insert_issues" /\ last.ok /\ last.projects = {2}
    /\ \E i \in DOMAIN db.issues :
         /\ DOMAIN db.issues = {i}
         /\ issue_ids_of_project(db, 2) = {i}
         /\ \E j, k \in journal_ids_of_issue(db, i) :
               /\ db.journals[j].created_on # db.journals[k].created_on
               /\ Len(DetailsOf(db, {j})) > 0

-----------------------------------------------------------------------------
(* The paged issue sync of src/app/data_loader.rs, driven by the loop of    *)
(* run_app.  One pass of the loop body runs the blocks                      *)
(*   refresh_issues -> next_page (-> get_issues) -> selection -> event      *)
(* and pc names the block that runs next; get_issues is the await of the    *)
(* remote call inside load_issues_next_page.                                *)

(* the page size load_issues_next_page asks for                             *)
limit == 100
(* the most issues the remote service holds for one project                 *)
MaxRemoteIssues == 200
(* the most key presses and mouse clicks of one run                         *)
MaxInputs == 2
(* the page size load_projects asks for                                     *)
projects_limit == 100
(* the most projects the remote service holds                               *)
MaxRemoteProjects == 200

syncvars == <<issues_loading_in_progress, issues_loaded_count, issues_total_count,
              issues_temp_buffer, loading>>

(* Issue ids are unique across the projects of the remote service.          *)
RemoteIssueId(pid, n) == (pid - 1) * MaxRemoteIssues + n

RemotePage(pid, offset, k) ==
    [i \in 1..k |-> [id |-> RemoteIssueId(pid, offset + i), project |-> pid,
                     project_name |-> Alpha, subject |-> Bug,
                     status_name |-> New, priority_id |-> 2,
                     assigned_to_id |-> NULL, description |-> NULL,
                     start_date |-> NULL, updated_on |-> offset + i,
                     journals |-> <<>>]]

(* What client.get_issues may return: an error, or a page of 0, 1 or limit  *)
(* issues together with any total_count, absent included.                   *)
PageLens == {0, 1, limit}
TotalCounts == {NULL, Some(0), Some(limit), Some(2 * limit), Some(3 * limit)}
Responses(pid, offset) ==
    {[ok |-> FALSE, issues |-> <<>>, total_count |-> NULL]}
    \cup {[ok |-> TRUE, issues |-> RemotePage(pid, offset, k), total_count |-> tc] :
            k \in {n \in PageLens : offset + n <= MaxRemoteIssues}, tc \in TotalCounts}

(* history: every step but the ones below clears the per-step fields; the   *)
(* step after the end of a cycle keeps of it only how it ended              *)
Quiet(c) ==
    IF issues_loading_in_progress
    THEN [c EXCEPT !.ret = "none", !.began = "none"]
    ELSE [NoCycle EXCEPT !.resp = c.resp, !.failed_with_pages = c.failed_with_pages]

(* history: load_issues is called; a call that finds the controller idle    *)
(* opens a new cycle                                                        *)
Began(c) ==
    IF issues_loading_in_progress
    THEN [c EXCEPT !.ret = "none", !.began = "busy"]
    ELSE [NoCycle EXCEPT !.began = "idle",
                         !.after_failure = c.failed_with_pages,
                         !.db_at_begin = db,
                         !.project = selected_project]

(* get_issues(project_id, ...).len() as apply_filters counts it             *)
count_issues(d, project) ==
    IF project = NULL THEN Cardinality(DOMAIN d.issues)
    ELSE Cardinality(IssuesOfProject(d, project[1]))

(* ---- the queries of the cache --------------------------------------------- *)
(* the primary keys of the model's rows stay below MaxRowId                 *)
MaxRowId == 2 * (MaxRemoteIssues + MaxRemoteProjects)

(* the keys among ids in rowid order                                        *)
RowIds(ids) == SelectSeq([i \in 1..MaxRowId |-> i], LAMBDA i : i \in ids)

(* ORDER BY leaves the order of rows of equal key open; the model takes the *)
(* two orders a scan of the table or of an index yields.                    *)
TieOrders == {"rowid", "reverse rowid"}

TieLess(a, b, ties) == IF ties = "rowid" THEN a < b ELSE b < a

opt_parse(text) == IF text = NULL THEN NULL ELSE Some(parse_datetime_from_db(text))

(* COALESCE(last_issue_activity, updated_on, created_on,                    *)
(* '1970-01-01T00:00:00Z')                                                  *)
project_order_key(row) ==
    IF row.last_issue_activity # NULL THEN row.last_issue_activity
    ELSE IF row.updated_on # NULL THEN row.updated_on
    ELSE IF row.created_on # NULL THEN row.created_on
    ELSE to_rfc3339(0)

project_matches(row, filter) ==
    \/ filter = NULL
    \/ filter[1] = <<>>
    \/ LET pattern == filter_pattern(filter[1])
       IN \/ Like(row.name, pattern)
          \/ Like(row.identifier, pattern)
          \/ NullableLike(row.description, pattern)

Reversed(seq) == [k \in 1..Len(seq) |-> seq[Len(seq) + 1 - k]]

(* the sorts start from the rows in rowid order or in the reverse of it,    *)
(* whichever has its two ends the right way round; the result is the same   *)
project_before(a, b, ties) ==
    \/ TextLess(b.key, a.key)
    \/ a.key = b.key /\ TieLess(a.id, b.id, ties)

OrderProjects(found, ties) ==
    SortSeq(IF found # <<>> /\ project_before(found[Len(found)], found[1], ties)
            THEN Reversed(found) ELSE found,
            LAMBDA a, b : project_before(a, b, ties))

get_projects(d, filter, ties) ==
    LET ids == RowIds({p \in DOMAIN d.projects : project_matches(d.projects[p], filter)})
        found == [k \in 1..Len(ids) |->
                    [id |-> ids[k], row |-> d.projects[ids[k]],
                     key |-> project_order_key(d.projects[ids[k]])]]
        order == OrderProjects(found, ties)
    IN [k \in 1..Len(order) |->
          LET row == order[k].row
          IN [id |-> order[k].id, name |-> row.name, identifier |-> row.identifier,
              description |-> row.description,
              created_on |-> opt_parse(row.created_on),
              updated_on |-> opt_parse(row.updated_on),
              last_issue_activity |-> opt_parse(row.last_issue_activity),
              last_issues_sync |-> opt_parse(row.last_issues_sync)]]

issue_matches(d, i, project_id, filter, assigned_to_id) ==
    LET row == d.issues[i]
    IN /\ project_id = NULL \/ row.project_id = project_id[1]
       /\ assigned_to_id = NULL \/ row.assigned_to_id = assigned_to_id
       /\ \/ filter = NULL
          \/ filter[1] = <<>>
          \/ LET pattern == filter_pattern(filter[1])
             IN \/ Like(row.subject, pattern)
                \/ NullableLike(row.description, pattern)
                \/ Like(CastAsText(i), pattern)

(* ORDER BY updated_on DESC | status_name ASC | status_name DESC |          *)
(* priority_id ASC | priority_id DESC                                       *)
issue_order_less(ra, rb, sort_order) ==
    CASE sort_order = "UpdatedDesc" -> TextLess(rb.updated_on, ra.updated_on)
      [] sort_order = "StatusAsc" -> BinaryLess(ra.status_name, rb.status_name)
      [] sort_order = "StatusDesc" -> BinaryLess(rb.status_name, ra.status_name)
      [] sort_order = "PriorityAsc" -> ra.priority_id < rb.priority_id
      [] sort_order = "PriorityDesc" -> rb.priority_id < ra.priority_id

issue_before(a, b, sort_order, ties) ==
    \/ issue_order_less(a.row, b.row, sort_order)
    \/ /\ ~issue_order_less(b.row, a.row, sort_order)
       /\ TieLess(a.id, b.id, ties)

OrderIssues(found, sort_order, ties) ==
    SortSeq(IF found # <<>>
               /\ issue_before(found[Len(found)], found[1], sort_order, ties)
            THEN Reversed(found) ELSE found,
            LAMBDA a, b : issue_before(a, b, sort_order, ties))

get_issues(d, project_id, sort_order, filter, assigned_to_id, ties) ==
    LET ids == RowIds({i \in DOMAIN d.issues :
                          issue_matches(d, i, project_id, filter, assigned_to_id)})
        found == [k \in 1..Len(ids) |-> [id |-> ids[k], row |-> d.issues[ids[k]]]]
        order == OrderIssues(found, sort_order, ties)
    IN [k \in 1..Len(order) |->
          LET row == order[k].row
          IN [id |-> order[k].id, project |-> row.project_id, project_name |-> <<>>,
              status_name |-> row.status_name, priority_id |-> row.priority_id,
              assigned_to_id |-> row.assigned_to_id, subject |-> row.subject,
              description |-> row.description, start_date |-> NULL,
              updated_on |-> parse_datetime_from_db(row.updated_on),
              journals |-> <<>>]]

get_last_projects_sync(d) ==
    IF "projects_last_synced" \in DOMAIN d.metadata
    THEN Some(parse_datetime_from_db(d.metadata["projects_last_synced"]))
    ELSE NULL

(* ---- apply_filters ------------------------------------------------------ *)
(* the rank of a status name in the status-sorted and status-grouped views  *)
status_priority(status) ==
    LET s == to_lowercase(status)
    IN IF \/ contains(s, <<"i", "n", " ", "p", "r", "o", "g", "r", "e", "s", "s">>)
          \/ contains(s, <<"p", "r", "o", "g", "r", "e", "s", "s">>) THEN 1
       ELSE IF contains(s, <<"f", "e", "e", "d", "b", "a", "c", "k">>) THEN 2
       ELSE IF contains(s, <<"n", "e", "w">>) THEN 3
       ELSE IF contains(s, <<"r", "e", "s", "o", "l", "v", "e", "d">>) THEN 4
       ELSE IF contains(s, <<"c", "l", "o", "s", "e", "d">>) THEN 5
       ELSE 99

(* filtered_issues.sort_by(...): a stable sort by the rank of the status,   *)
(* ascending for StatusAsc and descending for StatusDesc                    *)
sort_by_status(issues, sort_order) ==
    LET rank(k) == status_priority(issues[k].status_name)
        order == SortSeq([k \in 1..Len(issues) |-> k],
                         LAMBDA a, b :
                            \/ IF sort_order = "StatusAsc" THEN rank(a) < rank(b)
                               ELSE rank(b) < rank(a)
                            \/ rank(a) = rank(b) /\ a < b)
    IN [k \in 1..Len(issues) |-> issues[order[k]]]

(* if state >= len { state = len.saturating_sub(1) }                        *)
clamp_to_len(state, len) == IF state >= len THEN len ELSE state

clamp(state, len) ==
    IF state >= len THEN (IF len = 0 THEN 0 ELSE len - 1) ELSE state

(* the fields of App that apply_filters reads                               *)
settings ==
    [selected_project |-> selected_project, project_filter |-> project_filter,
     issue_filter |-> issue_filter, my_issues_filter |-> my_issues_filter,
     current_user_id |-> current_user_id, issue_sort_order |-> issue_sort_order]

(* the visible issues for the settings s, the rows of equal key in the      *)
(* order ties                                                               *)
queried_issues(d, s, ties) ==
    get_issues(d, s.selected_project, s.issue_sort_order,
               IF s.issue_filter = <<>> THEN NULL ELSE Some(s.issue_filter),
               IF s.my_issues_filter THEN s.current_user_id ELSE NULL, ties)

(* "Apply custom status ordering when sorting by status"                   *)
ranked(found, sort_order) ==
    IF sort_order \in {"StatusAsc", "StatusDesc"}
    THEN sort_by_status(found, sort_order)
    ELSE found

visible_issues(d, s, ties) == ranked(queried_issues(d, s, ties), s.issue_sort_order)

visible_projects(d, s, ties) ==
    get_projects(d, IF s.project_filter = <<>> THEN NULL ELSE Some(s.project_filter), ties)

(* the lists apply_filters can get from the two queries: one for each order *)
(* of the rows of equal key, and one alone where no two rows that follow    *)
(* each other have the same key                                             *)
issue_order_key(issue, sort_order) ==
    CASE sort_order = "UpdatedDesc" -> <<issue.updated_on>>
      [] sort_order \in {"StatusAsc", "StatusDesc"} -> issue.status_name
      [] sort_order \in {"PriorityAsc", "PriorityDesc"} -> <<issue.priority_id>>

Tied(keys) == \E k \in 1..(Len(keys) - 1) : keys[k] = keys[k + 1]

visible_issue_lists(d, s) ==
    LET first == queried_issues(d, s, "rowid")
    IN IF Tied([k \in 1..Len(first) |-> issue_order_key(first[k], s.issue_sort_order)])
       THEN {ranked(first, s.issue_sort_order), visible_issues(d, s, "reverse rowid")}
       ELSE {ranked(first, s.issue_sort_order)}

fetched_order_key(project) ==
    IF project.last_issue_activity # NULL THEN project.last_issue_activity
    ELSE IF project.updated_on # NULL THEN project.updated_on
    ELSE IF project.created_on # NULL THEN project.created_on
    ELSE Some(0)

visible_project_lists(d, s) ==
    LET first == visible_projects(d, s, "rowid")
    IN IF Tied([k \in 1..Len(first) |-> fetched_order_key(first[k])])
       THEN {first, visible_projects(d, s, "reverse rowid")}
       ELSE {first}

(* apply_filters, with the fields of App as the handler has set them, up to *)
(* the clamp of the issue cursor, which a handler that resets the cursor    *)
(* after the call overwrites                                                *)
apply_filters_on(d, s) ==
    /\ last_projects_sync' = get_last_projects_sync(d)
    /\ total_projects' = Cardinality(DOMAIN d.projects)
    /\ filtered_projects' \in visible_project_lists(d, s)
    /\ projects_list_state' = clamp(projects_list_state, Len(filtered_projects'))
    /\ total_issues' = count_issues(d, s.selected_project)
    /\ filtered_issues' \in visible_issue_lists(d, s)

(* main: "Load cached data from DB immediately", app.apply_filters() on the *)
(* App that App::new returned                                               *)
Loaded(d) ==
    /\ last_projects_sync = get_last_projects_sync(d)
    /\ total_projects = Cardinality(DOMAIN d.projects)
    /\ filtered_projects \in visible_project_lists(d, settings)
    /\ total_issues = count_issues(d, selected_project)
    /\ filtered_issues \in visible_issue_lists(d, settings)

apply_filters_with(d, s) ==
    /\ apply_filters_on(d, s)
    /\ issues_list_state' = clamp(issues_list_state, Len(filtered_issues'))

apply_filters(d) == apply_filters_with(d, settings)

(* ---- load_issues ------------------------------------------------------- *)
load_issues_keeps_count ==
    IF ~issues_loading_in_progress
    THEN /\ issues_loading_in_progress' = TRUE
         /\ issues_total_count' = 0
         /\ issues_temp_buffer' = <<>>
         /\ loading' = TRUE
         /\ UNCHANGED issues_loaded_count
    ELSE UNCHANGED syncvars

load_issues_reentrant ==
    /\ issues_loading_in_progress' = TRUE
    /\ issues_loaded_count' = 0
    /\ issues_total_count' = 0
    /\ issues_temp_buffer' = <<>>
    /\ loading' = TRUE

load_issues ==
    IF ~issues_loading_in_progress
    THEN /\ issues_loading_in_progress' = TRUE
         /\ issues_loaded_count' = 0
         /\ issues_total_count' = 0
         /\ issues_temp_buffer' = <<>>
         /\ loading' = TRUE
    ELSE UNCHANGED syncvars

(* ---- load_issues_next_page -------------------------------------------- *)
(* "Check if we've loaded all issues"                                       *)
all_loaded_on_every_page(received_count, loaded, total) == TRUE

all_loaded(received_count, loaded, total) ==
    received_count < limit \/ loaded >= total

(* if let Err(e) = self.db.insert_issues(..) { self.error_message = ... }    *)
store_error_swallowed(ok, message) == message

store_error(ok, message) ==
    IF ok THEN message ELSE Some("Failed to store issues")

(* the arm Ok(response) of the match on client.get_issues(...).await        *)
response_Ok(response, failAt) ==
    LET received_count == Len(response.issues)
        buffer == issues_temp_buffer \o response.issues
        total_count == IF response.total_count = NULL THEN 0
                       ELSE response.total_count[1]
        answered == [cycle EXCEPT !.pages = @ \o response.issues,
                                  !.outstanding = @ - 1, !.resp = "ok",
                                  !.received = received_count, !.began = "none"]
    IN /\ issues_loaded_count' = Len(buffer)
       /\ issues_total_count' = total_count
       /\ IF all_loaded(received_count, Len(buffer), total_count)
          THEN LET r == insert_issues(db, buffer, now, failAt)
               IN /\ db' = r.db
                  /\ error_message' = store_error(r.ok, error_message)
                  /\ apply_filters(r.db)
                  /\ issues_loading_in_progress' = FALSE
                  /\ issues_temp_buffer' = <<>>
                  /\ loading' = FALSE
                  /\ cycle' = [answered EXCEPT !.flushes = Append(@, buffer),
                                               !.ret = "Ok(true)",
                                               !.store_failed = ~r.ok]
          ELSE /\ issues_temp_buffer' = buffer
               /\ cycle' = [answered EXCEPT !.ret = "Ok(false)"]
               /\ UNCHANGED <<db, error_message, total_issues, listvars,
                              issues_loading_in_progress, loading>>

response_Err_keeps_buffer ==
    /\ error_message' = Some("Failed to load issues")
    /\ issues_loading_in_progress' = FALSE
    /\ loading' = FALSE
    /\ cycle' = [cycle EXCEPT !.outstanding = @ - 1, !.resp = "err", !.received = 0,
                              !.failed_with_pages = (Len(cycle.pages) > 0),
                              !.ret = "Ok(true)", !.began = "none"]
    /\ UNCHANGED <<db, issues_temp_buffer, issues_loaded_count, issues_total_count,
                   total_issues, listvars>>

(* the arm Err(e): "Stop on error"                                          *)
response_Err ==
    /\ error_message' = Some("Failed to load issues")
    /\ issues_loading_in_progress' = FALSE
    /\ issues_temp_buffer' = <<>>
    /\ loading' = FALSE
    /\ cycle' = [cycle EXCEPT !.outstanding = @ - 1, !.resp = "err", !.received = 0,
                              !.failed_with_pages = (Len(cycle.pages) > 0),
                              !.ret = "Ok(true)", !.began = "none"]
    /\ UNCHANGED <<db, issues_loaded_count, issues_total_count, total_issues, listvars>>

(* ---- run_app ----------------------------------------------------------- *)
(* "Handle refresh issues request"                                          *)
LoopRefreshIssues ==
    /\ UNCHANGED projvars
    /\ UNCHANGED viewvars
    /\ pc = "refresh_issues"
    /\ IF refresh_issues
       THEN /\ refresh_issues' = FALSE
            /\ load_issues
            /\ cycle' = Began(cycle)
       ELSE /\ UNCHANGED <<refresh_issues, syncvars>>
            /\ cycle' = Quiet(cycle)
    /\ pc' = "next_page"
    /\ UNCHANGED <<db, now, last, client, selected_project, error_message,
                   total_issues, listvars, last_selected_project, events>>

(* "Handle incremental issue loading (one page per loop iteration)": the    *)
(* call of load_issues_next_page up to the await of client.get_issues, with *)
(* offset = issues_loaded_count; without a client or a selected project the *)
(* call returns Ok(true) at once.                                           *)
LoopNextPage ==
    /\ UNCHANGED projvars
    /\ UNCHANGED viewvars
    /\ pc = "next_page"
    /\ IF issues_loading_in_progress
       THEN IF client /\ selected_project # NULL
            THEN /\ cycle' = [Quiet(cycle) EXCEPT
                                !.requests = Append(@, issues_loaded_count),
                                !.outstanding = @ + 1]
                 /\ pc' = "get_issues"
            ELSE /\ cycle' = [Quiet(cycle) EXCEPT !.ret = "Ok(true)"]
                 /\ pc' = "selection"
       ELSE /\ cycle' = Quiet(cycle)
            /\ pc' = "selection"
    /\ UNCHANGED <<db, now, last, client, selected_project, refresh_issues, syncvars,
                   error_message, total_issues, listvars, last_selected_project, events>>

(* client.get_issues returns and load_issues_next_page runs to its return;  *)
(* insert_issues may fail at its first statement or after the first row.    *)
(* the answers of a remote service of one kind: any, or one that reports no *)
(* total_count                                                              *)
Answers(kind, pid, offset) ==
    {r \in Responses(pid, offset) : kind = "any" \/ r.total_count = NULL}

GetIssuesAnswered(kind) ==
    /\ UNCHANGED projvars
    /\ UNCHANGED viewvars
    /\ pc = "get_issues"
    /\ \E response \in Answers(kind, selected_project[1], issues_loaded_count),
          failAt \in {0, 1, 2} :
          IF response.ok THEN response_Ok(response, failAt)
          ELSE response_Err
    /\ pc' = "selection"
    /\ UNCHANGED <<now, last, client, selected_project, refresh_issues,
                   last_selected_project, events>>

GetIssuesReturns == GetIssuesAnswered("any")

(* the remote service reports no total_count                                *)
GetIssuesReturnsUncounted == GetIssuesAnswered("uncounted")

(* "Handle project selection changes - load issues when a project is        *)
(* selected"                                                                *)
selection_changed == selected_project # last_selected_project /\ selected_project # NULL

SelectionChange ==
    /\ UNCHANGED projvars
    /\ pc = "selection"
    /\ IF selection_changed
       THEN /\ apply_filters(db)
            /\ IF count_issues(db, selected_project) = 0
               THEN /\ load_issues
                    /\ cycle' = Began(cycle)
               ELSE /\ UNCHANGED syncvars
                    /\ cycle' = Quiet(cycle)
            /\ last_selected_project' = selected_project
       ELSE /\ UNCHANGED <<total_issues, listvars, syncvars, last_selected_project>>
            /\ cycle' = Quiet(cycle)
    /\ UNCHANGED <<db, now, last, client, selected_project, refresh_issues,
                   error_message, events>>

(* with no issue to load, "Handle issue detail loading" does nothing and    *)
(* the loop goes on to the events                                           *)
LoopSelectionChange ==
    /\ SelectionChange
    /\ pc' = "event"
    /\ UNCHANGED viewvars

(* handle_key: KeyCode::Char('I')                                           *)
KeyRefreshIssues ==
    /\ UNCHANGED projvars
    /\ UNCHANGED viewvars
    /\ pc = "event"
    /\ events < MaxInputs
    /\ events' = events + 1
    /\ IF selected_project # NULL
       THEN /\ refresh_issues' = TRUE
            /\ loading' = TRUE
            /\ UNCHANGED error_message
       ELSE /\ error_message' = Some("No project selected")
            /\ UNCHANGED <<refresh_issues, loading>>
    /\ cycle' = Quiet(cycle)
    /\ pc' = "refresh_issues"
    /\ UNCHANGED <<db, now, last, client, selected_project,
                   issues_loading_in_progress, issues_loaded_count,
                   issues_total_count, issues_temp_buffer, total_issues, listvars,
                   last_selected_project>>

(* handle_key: KeyCode::Enter in the projects pane, and handle_mouse: a     *)
(* left click on a row of the projects pane                                 *)
SelectProject ==
    /\ UNCHANGED projvars
    /\ pc = "event"
    /\ events < MaxInputs
    /\ events' = events + 1
    /\ \E project \in DOMAIN db.projects : selected_project' = Some(project)
    /\ focused_pane' = "Issues"
    /\ issues_list_state' = 0
    /\ cycle' = Quiet(cycle)
    /\ pc' = "refresh_issues"
    /\ UNCHANGED <<db, now, last, client, refresh_issues, syncvars, error_message,
                   total_issues, last_selected_project>>
    /\ UNCHANGED <<last_projects_sync, total_projects, filtered_projects,
                   projects_list_state, filtered_issues>>
    /\ UNCHANGED <<project_filter, issue_filter, my_issues_filter, current_user_id,
                   issue_sort_order, group_issues_by_status, status_groups_collapsed,
                   current_issue, show_issue_popup, loading_issue, comment_issue_id,
                   handled, formvars, bulkvars>>

(* events::Event::Tick                                                      *)
EventTick ==
    /\ UNCHANGED projvars
    /\ UNCHANGED viewvars
    /\ pc = "event"
    /\ cycle' = Quiet(cycle)
    /\ pc' = "refresh_issues"
    /\ UNCHANGED <<db, now, last, client, selected_project, refresh_issues, syncvars,
                   error_message, total_issues, listvars, last_selected_project, events>>

(* The cache holds the projects of an earlier run and no issues; the client *)
(* exists when the configuration is complete.                               *)
Init ==
    /\ db = [EmptyDb EXCEPT !.projects =
                [p \in ProjectIds |->
                    [name |-> Alpha, identifier |-> AlphaId, description |-> NULL,
                     created_on |-> NULL, updated_on |-> to_rfc3339(p),
                     last_issue_activity |-> NULL, last_issues_sync |-> NULL]]]
    /\ now = 1
    /\ last = NoOp
    /\ client \in BOOLEAN
    /\ pc = "refresh_issues"
    /\ AppNew
    /\ Loaded(db)

Next ==
    \/ LoopRefreshIssues
    \/ LoopNextPage
    \/ GetIssuesReturns
    \/ LoopSelectionChange
    \/ KeyRefreshIssues
    \/ SelectProject
    \/ EventTick

Spec == Init /\ [][Next]_vars

(* the same loop against a remote service that reports no total_count       *)
NextUncounted ==
    \/ LoopRefreshIssues
    \/ LoopNextPage
    \/ GetIssuesReturnsUncounted
    \/ LoopSelectionChange
    \/ KeyRefreshIssues
    \/ SelectProject
    \/ EventTick

SpecUncounted == Init /\ [][NextUncounted]_vars

-----------------------------------------------------------------------------
(* Properties of the issue sync.                                            *)

(* the step is the return of client.get_issues                              *)
Answered == cycle'.outstanding < cycle.outstanding

(* the step hands a batch to insert_issues                                  *)
Flushed == Len(cycle'.flushes) > Len(cycle.flushes)

FailedFetchAborts ==
    /\ db' = db
    /\ db'.issues = cycle.db_at_begin.issues
    /\ db'.journals = cycle.db_at_begin.journals
    /\ db'.projects = cycle.db_at_begin.projects
    /\ cycle'.flushes = <<>>
    /\ issues_temp_buffer' = <<>>
    /\ ~issues_loading_in_progress'
    /\ error_message' = Some("Failed to load issues")

C3_OffsetsFollowBuffer ==
    [][/\ cycle'.outstanding <= 1
       /\ cycle'.outstanding > cycle.outstanding =>
            LET n == Len(cycle'.requests)
                offset == cycle'.requests[n]
            IN /\ cycle.outstanding = 0
               /\ n = Len(cycle.requests) + 1
               /\ offset = Len(issues_temp_buffer)
               /\ offset = Len(cycle.pages)
               /\ n = 1 => offset = 0
               /\ n > 1 => offset > cycle'.requests[n - 1]]_vars

(* the first request of a cycle that follows a cycle whose fetch failed     *)
(* with pages buffered                                                      *)
C3_Witness ==
    /\ cycle.after_failure
    /\ cycle.outstanding = 1
    /\ cycle.requests = <<0>>
    /\ issues_loaded_count = 0

(* C4: load_issues called on an idle controller leaves it in progress with  *)
(* an empty buffer and both counts 0; called on a controller in progress it *)
(* changes neither the buffer nor the counts nor the state.                 *)
C4_BeginIsIdempotent ==
    [][/\ cycle'.began = "idle" =>
            /\ ~issues_loading_in_progress
            /\ issues_loading_in_progress'
            /\ issues_temp_buffer' = <<>>
            /\ issues_loaded_count' = 0
            /\ issues_total_count' = 0
       /\ cycle'.began = "busy" =>
            /\ issues_loading_in_progress
            /\ UNCHANGED <<issues_loading_in_progress, issues_temp_buffer,
                           issues_loaded_count, issues_total_count>>]_vars

(* load_issues was called with a page buffered                              *)
C4_Witness ==
    /\ cycle.began = "busy"
    /\ Len(issues_temp_buffer) = limit
    /\ issues_loaded_count = limit
    /\ issues_total_count > limit

(* C15: when insert_issues fails on the flush that completes a sync, the    *)
(* sync still ends: the controller is idle, the buffer is empty,            *)
(* load_issues_next_page returns Ok(true), error_message says that storing  *)
(* failed, the loop goes on, and the cache is what it was when the sync     *)
(* began.                                                                   *)
C15_FailedFlushEndsSync ==
    [][cycle'.store_failed =>
          /\ ~issues_loading_in_progress'
          /\ issues_temp_buffer' = <<>>
          /\ ~loading'
          /\ cycle'.ret = "Ok(true)"
          /\ error_message' = Some("Failed to store issues")
          /\ pc' = "selection"
          /\ db' = db
          /\ db' = cycle.db_at_begin]_vars

(* the flush of two full pages failed                                       *)
C15_Witness ==
    /\ cycle.store_failed
    /\ Len(cycle.flushes) = 1
    /\ Len(cycle.flushes[1]) = 2 * limit
    /\ Len(cycle.requests) = 2

-----------------------------------------------------------------------------
(* load_projects of src/app/data_loader.rs, run by the block "Handle        *)
(* refresh projects request" of run_app.  The block awaits load_projects,   *)
(* so no other block of the loop runs in between; pc names the await at     *)
(* which load_projects stands:                                              *)
(*   refresh_projects -> get_projects (one step per page)                   *)
(*                    -> get_recent_issues -> get_users -> event            *)
(* The users that load_all_users fetches and caches are not part of the     *)
(* state; whether it returns Ok or Err, load_projects goes on the same way. *)

(* the most presses of 'P' in one run                                       *)
MaxRefreshes == 1
(* the most issues the remote service returns as recently updated           *)
MaxRecent == 1

issuevars == <<selected_project, refresh_issues, issues_loading_in_progress,
               issues_loaded_count, issues_total_count, issues_temp_buffer,
               last_selected_project, cycle>>

RemoteProjectPage(first, k) ==
    [i \in 1..k |-> [id |-> first + i, name |-> Alpha, identifier |-> AlphaId,
                     description |-> NULL, created_on |-> NULL,
                     updated_on |-> Some(first + i)]]
ProjectPageLens == {0, 1, projects_limit}
ProjectTotalCounts ==
    {NULL, Some(projects_limit), Some(2 * projects_limit), Some(3 * projects_limit)}
ProjectResponses(first) ==
    {[ok |-> FALSE, projects |-> <<>>, total_count |-> NULL]}
    \cup {[ok |-> TRUE, projects |-> RemoteProjectPage(first, k), total_count |-> tc] :
            k \in {n \in ProjectPageLens : first + n <= MaxRemoteProjects},
            tc \in ProjectTotalCounts}

(* issue 1 of project 1, updated at either time                             *)
RecentIssueInputs == {i \in IssueInputs({1}, Times) : i.project = 1}
RecentResponses ==
    {[ok |-> FALSE, issues |-> <<>>]}
    \cup {[ok |-> TRUE, issues |-> issues] :
            issues \in BoundedSeq(RecentIssueInputs, MaxRecent)}

(* "Check if we've fetched all projects" and "If we got less than limit,    *)
(* we're done"                                                              *)
fetched_all(total_count, loaded, fetched) ==
    \/ total_count # NULL /\ loaded >= total_count[1]
    \/ fetched < projects_limit

(* the arm Err(e) of the match on client.get_projects: had_error = true     *)
had_error_unset == FALSE

had_error_on_Err == TRUE

(* "Only proceed with storage and filtering if we didn't have an error":    *)
(* insert_projects, then up to the await of client.get_recent_issues;       *)
(* message is error_message and h the history before it                     *)
store_projects(buffer, failAt, message, h) ==
    LET r == insert_projects(db, buffer, now, failAt)
        stored_message == IF r.ok THEN message ELSE Some("Failed to store projects")
    IN /\ db' = r.db
       /\ error_message' = stored_message
       /\ all_projects' = buffer
       /\ psync' = [h EXCEPT !.upserts = Append(@, buffer),
                             !.stored = r.ok,
                             !.recent_requests = @ + 1,
                             !.error_before = stored_message,
                             !.status = <<"Updating project activity dates...", 0>>]
       /\ pc' = "get_recent_issues"

(* "Use a HashMap to track the most recent issue per project"               *)
project_last_activity(issues) ==
    [p \in batch_project_ids(issues) |->
        LET times == {issues[k].updated_on :
                        k \in {j \in 1..Len(issues) : issues[j].project = p}}
        IN CHOOSE t \in times : \A u \in times : u <= t]

(* for (project_id, last_activity) in project_last_activity: a call that    *)
(* fails is logged and the loop goes on.  The calls write different rows,   *)
(* so the order in which the HashMap yields them makes no difference.       *)
RECURSIVE update_activities(_, _, _, _)
update_activities(d, activity, todo, failing) ==
    IF todo = {} THEN d
    ELSE LET p == CHOOSE x \in todo : TRUE
             r == update_project_last_activity(d, p, activity[p],
                                               IF p \in failing THEN 1 ELSE 0)
         IN update_activities(r.db, activity, todo \ {p}, failing)

(* "Handle refresh projects request": load_projects up to its first await   *)
LoopRefreshProjects ==
    /\ pc = "refresh_projects"
    /\ UNCHANGED viewvars
    /\ IF refresh_projects
       THEN /\ refresh_projects' = FALSE
            /\ IF client
               THEN /\ loading' = TRUE
                    /\ all_projects' = <<>>
                    /\ projects_offset' = 0
                    /\ psync' = [NoProjectsSync EXCEPT
                                   !.db_at_begin = db,
                                   !.status = <<"Loading projects...", 0>>]
                    /\ pc' = "get_projects"
               ELSE /\ psync' = [NoProjectsSync EXCEPT !.ret = "Ok"]
                    /\ pc' = "event"
                    /\ UNCHANGED <<loading, all_projects, projects_offset>>
       ELSE /\ pc' = "event"
            /\ UNCHANGED <<refresh_projects, loading, all_projects, projects_offset,
                           psync>>
    /\ UNCHANGED <<db, now, last, client, error_message, total_issues, listvars, events,
                   issuevars>>

(* client.get_projects returns: another page is asked for, or the projects  *)
(* are stored and the recent issues asked for, or load_projects returns     *)
(* after a failed fetch; insert_projects may fail at its first statement or *)
(* after the first row.                                                     *)
GetProjectsReturns ==
    /\ pc = "get_projects"
    /\ UNCHANGED viewvars
    /\ \E response \in ProjectResponses(projects_offset), failAt \in {0, 1, 2} :
         IF response.ok
         THEN LET fetched == Len(response.projects)
                  buffer == all_projects \o response.projects
                  h == [psync EXCEPT !.pages = @ \o response.projects]
              IN IF fetched_all(response.total_count, Len(buffer), fetched)
                 THEN /\ store_projects(buffer, failAt, error_message, h)
                      /\ UNCHANGED <<loading, projects_offset>>
                 ELSE /\ all_projects' = buffer
                      /\ projects_offset' = projects_offset + projects_limit
                      /\ psync' = h
                      /\ UNCHANGED <<db, error_message, loading, pc>>
         ELSE LET h == [psync EXCEPT !.fetch_failed = TRUE]
                  message == Some("Failed to load projects")
              IN IF had_error_on_Err
                 THEN /\ error_message' = message
                      /\ loading' = FALSE
                      /\ psync' = [h EXCEPT !.ret = "Ok"]
                      /\ all_projects' = <<>>
                      /\ projects_offset' = 0
                      /\ pc' = "event"
                      /\ UNCHANGED db
                 ELSE /\ loading' = FALSE
                      /\ store_projects(all_projects, failAt, message, h)
                      /\ UNCHANGED projects_offset
    /\ UNCHANGED <<now, last, client, refresh_projects, total_issues, listvars, events,
                   issuevars>>

(* tracing::warn!("Failed to fetch recent issues for project activity       *)
(* update: {}", e): the log is written, error_message stays                 *)
recent_issues_Err_shown(message) == Some("Failed to fetch recent issues")

recent_issues_Err(message) == message

(* client.get_recent_issues(100, 0) returns: the issues are cached and the  *)
(* activity dates set, every failure logged only; then load_all_users is    *)
(* awaited.                                                                 *)
GetRecentIssuesReturns ==
    /\ pc = "get_recent_issues"
    /\ UNCHANGED viewvars
    /\ \E response \in RecentResponses, failAt \in {0, 1} :
         \E failing \in SUBSET batch_project_ids(response.issues) :
           IF response.ok
           THEN LET r == insert_issues(db, response.issues, now, failAt)
                    activity == project_last_activity(response.issues)
                IN /\ db' = update_activities(r.db, activity, DOMAIN activity, failing)
                   /\ UNCHANGED error_message
                   /\ psync' = [psync EXCEPT
                                  !.enrich_failed = ~r.ok \/ failing # {},
                                  !.status = <<"Loading users...", 0>>]
           ELSE /\ db' = db
                /\ error_message' = recent_issues_Err(error_message)
                /\ psync' = [psync EXCEPT !.enrich_failed = TRUE,
                                          !.status = <<"Loading users...", 0>>]
    /\ pc' = "get_users"
    /\ UNCHANGED <<now, last, client, refresh_projects, all_projects, projects_offset,
                   loading, total_issues, listvars, events, issuevars>>

(* load_all_users returns and load_projects runs to its return              *)
LoadAllUsersReturns ==
    /\ pc = "get_users"
    /\ UNCHANGED viewvars
    /\ apply_filters(db)
    /\ loading' = FALSE
    /\ psync' = [psync EXCEPT !.status = <<"Loaded projects", Len(all_projects)>>,
                              !.ret = "Ok"]
    /\ all_projects' = <<>>
    /\ projects_offset' = 0
    /\ pc' = "event"
    /\ UNCHANGED <<db, now, last, client, refresh_projects, error_message, events,
                   issuevars>>

(* handle_key: KeyCode::Char('P')                                           *)
KeyRefreshProjects ==
    /\ pc = "event"
    /\ UNCHANGED viewvars
    /\ events < MaxRefreshes
    /\ events' = events + 1
    /\ refresh_projects' = TRUE
    /\ pc' = "refresh_projects"
    /\ UNCHANGED <<db, now, last, client, all_projects, projects_offset, psync,
                   loading, error_message, total_issues, listvars, issuevars>>

(* The cache is empty or holds two projects of an earlier run, stored at    *)
(* time 1; the run of load_projects comes later.                            *)
InitProjects ==
    /\ db \in {EmptyDb, insert_projects(EmptyDb, RemoteProjectPage(0, 2), 1, 0).db}
    /\ now = MaxClock
    /\ last = NoOp
    /\ client \in BOOLEAN
    /\ pc = "refresh_projects"
    /\ AppNew
    /\ Loaded(db)

NextProjects ==
    \/ LoopRefreshProjects
    \/ GetProjectsReturns
    \/ GetRecentIssuesReturns
    \/ LoadAllUsersReturns
    \/ KeyRefreshProjects

SpecProjects == InitProjects /\ [][NextProjects]_vars

(* ---- the project sync -------------------------------------------------- *)
(* C14: a run of load_projects calls insert_projects at most once, with     *)
(* all the pages it received, after the last page and with no page fetch    *)
(* failed; when a page fetch fails insert_projects is not called, the       *)
(* projects table and the projects_last_synced stamp stay as they were when *)
(* the run began, and get_recent_issues is not called.                      *)
C14_ProjectsStoredOnceAfterAllPages ==
    /\ Len(psync.upserts) <= 1
    /\ psync.upserts # <<>> =>
          /\ ~psync.fetch_failed
          /\ psync.upserts[1] = psync.pages
          /\ pc # "get_projects"
    /\ psync.recent_requests <= Len(psync.upserts)
    /\ psync.fetch_failed =>
          /\ psync.upserts = <<>>
          /\ psync.recent_requests = 0
          /\ db.projects = psync.db_at_begin.projects
          /\ db.metadata = psync.db_at_begin.metadata
          /\ psync.ret = "Ok" /\ pc \in {"event", "refresh_projects"}

(* the fetch of the second page failed with a full page buffered, and the   *)
(* cache holds the projects of an earlier run                               *)
C14_Witness ==
    /\ psync.fetch_failed
    /\ Len(psync.pages) = projects_limit
    /\ now > 1
    /\ DOMAIN db.projects = {1, 2}

(* a run stored two full pages                                              *)
C14_StoredTwoPages ==
    /\ psync.stored
    /\ Len(psync.upserts[1]) = 2 * projects_limit
    /\ Cardinality(DOMAIN db.projects) = 2 * projects_limit

(* the projects a run stored are cached under their names                   *)
StoredProjectsCached ==
    \A k \in 1..Len(psync.upserts[1]) :
       /\ psync.upserts[1][k].id \in DOMAIN db.projects
       /\ db.projects[psync.upserts[1][k].id].name = psync.upserts[1][k].name

(* C16: when fetching the recent issues, caching them or setting a          *)
(* project's activity date fails after insert_projects, error_message is    *)
(* not set by it and load_projects does not return Err; the run ends with   *)
(* the status "Loaded N projects" and the projects it stored stay cached.   *)
C16_EnrichmentFailureIsSwallowed ==
    psync.enrich_failed =>
       /\ error_message = psync.error_before
       /\ psync.ret \in {"none", "Ok"}
       /\ psync.stored => StoredProjectsCached
       /\ pc = "event" =>
             /\ psync.ret = "Ok"
             /\ ~loading
             /\ psync.status = <<"Loaded projects", Len(psync.upserts[1])>>

(* a run stored a full page of projects, then caching the recent issues or  *)
(* setting an activity date failed, and the run is over                     *)
C16_Witness ==
    /\ psync.enrich_failed
    /\ psync.stored
    /\ Len(psync.upserts[1]) = projects_limit
    /\ db.issues # <<>>
    /\ pc = "event"

-----------------------------------------------------------------------------
(* The issues pane in status-grouped mode (src/app/filters.rs,              *)
(* src/ui/main_screen.rs).  A row of the pane is the header of a status or  *)
(* an issue; the cursor issues_list_state counts rows from 0.               *)

(* "Collect unique statuses in order of appearance"                        *)
statuses_by_appearance(issues) ==
    LET firsts == SelectSeq([k \in 1..Len(issues) |-> k],
                            LAMBDA k : \A j \in 1..(k - 1) :
                                          issues[j].status_name # issues[k].status_name)
    IN [k \in 1..Len(firsts) |-> issues[firsts[k]].status_name]

(* status_order.sort_by_key(|s| status_priority(s)): a stable sort          *)
sort_by_key_unsorted(status_order) == status_order

sort_by_key(status_order) ==
    LET rank(k) == status_priority(status_order[k])
        order == SortSeq([k \in 1..Len(status_order) |-> k],
                         LAMBDA a, b : rank(a) < rank(b) \/ (rank(a) = rank(b) /\ a < b))
    IN [k \in 1..Len(status_order) |-> status_order[order[k]]]

statuses_by_rank(issues) == sort_by_key(statuses_by_appearance(issues))

(* filtered_issues.iter().filter(|i| i.status.name == status_name)          *)
issues_of_status(issues, status_name) ==
    SelectSeq(issues, LAMBDA i : i.status_name = status_name)

(* the rows a walk over status_order passes: for each status its header     *)
(* and, unless status_groups_collapsed maps it to true, its issues          *)
RECURSIVE rows_from(_, _, _, _)
rows_from(issues, status_order, collapsed, k) ==
    IF k > Len(status_order) THEN <<>>
    ELSE LET status_name == status_order[k]
             group == issues_of_status(issues, status_name)
         IN <<[header |-> TRUE, status |-> status_name, issue |-> NULL]>>
            \o (IF status_name \in collapsed THEN <<>>
                ELSE [j \in 1..Len(group) |->
                        [header |-> FALSE, status |-> status_name,
                         issue |-> Some(group[j])]])
            \o rows_from(issues, status_order, collapsed, k + 1)

rows_by_appearance(issues, collapsed) ==
    rows_from(issues, statuses_by_appearance(issues), collapsed, 1)

(* the rows as draw_issues_pane lists them                                  *)
rows_by_rank(issues, collapsed) ==
    rows_from(issues, statuses_by_rank(issues), collapsed, 1)

get_status_at_cursor(issues, grouped, collapsed, cursor) ==
    LET rows == rows_by_appearance(issues, collapsed)
    IN IF grouped /\ cursor < Len(rows) /\ rows[cursor + 1].header
       THEN Some(rows[cursor + 1].status)
       ELSE NULL

get_current_status_group(issues, grouped, collapsed, cursor) ==
    LET rows == rows_by_rank(issues, collapsed)
    IN IF grouped /\ cursor < Len(rows) THEN Some(rows[cursor + 1].status) ELSE NULL

get_status_group_header_position(issues, grouped, collapsed, target_status) ==
    LET rows == rows_by_rank(issues, collapsed)
    IN IF grouped /\ \E k \in 1..Len(rows) : rows[k].header /\ rows[k].status = target_status
       THEN Some((CHOOSE k \in 1..Len(rows) :
                     rows[k].header /\ rows[k].status = target_status) - 1)
       ELSE NULL

get_visible_items_count(issues, grouped, collapsed) ==
    IF grouped THEN Len(rows_by_rank(issues, collapsed)) ELSE Len(issues)

get_issue_at_cursor(issues, grouped, collapsed, cursor) ==
    IF ~grouped
    THEN (IF cursor < Len(issues) THEN Some(issues[cursor + 1]) ELSE NULL)
    ELSE LET rows == rows_by_appearance(issues, collapsed)
         IN IF cursor < Len(rows) THEN rows[cursor + 1].issue ELSE NULL

-----------------------------------------------------------------------------
(* The main screen: the key handlers of src/app/handlers.rs and the blocks  *)
(* of the loop of run_app that act on what they leave behind.  The loop     *)
(* runs "Handle add comment request", "Handle project selection changes"    *)
(* and "Handle issue detail loading" in this order and then handles one     *)
(* event.  The blocks for refresh_projects, refresh_issues and the paged    *)
(* sync come before them; the specifications of the main screen never set   *)
(* their flags, so the blocks do nothing there and are left out.            *)
(*   SpecView    filters, sort orders, the issue popup and the reply to an  *)
(*               issue, against a remote service;                           *)
(*   SpecGroups  the status-grouped issues pane, without a remote service.  *)

Beta == <<"B", "e", "t", "a">>
BetaId == <<"b", "e", "t", "a">>
Fix == <<"F", "i", "x">>
InProgress == <<"I", "n", " ", "P", "r", "o", "g", "r", "e", "s", "s">>
FEEDBACK == <<"F", "E", "E", "D", "B", "A", "C", "K">>
Closed == <<"C", "l", "o", "s", "e", "d">>
Rejected == <<"R", "e", "j", "e", "c", "t", "e", "d">>
Renewed == <<"R", "e", "n", "e", "w", "e", "d">>
(* the id get_current_user answers with                                     *)
CurrentUser == 7

ViewProjects ==
    <<[id |-> 1, name |-> Alpha, identifier |-> AlphaId, description |-> NULL,
       created_on |-> NULL, updated_on |-> NULL],
      [id |-> 2, name |-> Beta, identifier |-> BetaId, description |-> NULL,
       created_on |-> NULL, updated_on |-> NULL]>>

ViewIssue(id, project, subject, status_name, priority_id, assigned_to_id, updated_on) ==
    [id |-> id, project |-> project, project_name |-> IF project = 1 THEN Alpha ELSE Beta,
     status_name |-> status_name, priority_id |-> priority_id,
     assigned_to_id |-> assigned_to_id, subject |-> subject, description |-> NULL,
     start_date |-> NULL, updated_on |-> updated_on, journals |-> <<>>]

(* a cache as a sync of the two projects leaves it                          *)
CacheOf(issues) ==
    insert_issues(insert_projects(EmptyDb, ViewProjects, 1, 0).db, issues, 1, 0).db

(* the most key events one run handles                                      *)
MaxKeys == 4

backstage == <<now, last, client, refresh_issues, cycle, projvars, formvars, bulkvars>>
filtervars == <<project_filter, issue_filter, my_issues_filter>>
groupvars == <<group_issues_by_status, status_groups_collapsed>>
popupvars == <<current_issue, show_issue_popup, loading_issue, comment_issue_id>>
loadedvars == <<total_issues, last_projects_sync, total_projects, filtered_projects,
                filtered_issues>>

(* the step did not call apply_filters                                      *)
Handled(name) ==
    handled' = [by |-> name, projects_before |-> 0, issues_before |-> 0]

(* the step called apply_filters with the cursors at these positions        *)
Refreshed(name) ==
    handled' = [by |-> name, projects_before |-> projects_list_state,
                issues_before |-> issues_list_state]

(* one key event, handled while the loop waits for it; the loop goes on    *)
(* with this block of its body, the flags of the blocks before it being    *)
(* false                                                                    *)
KeyThen(block) ==
    /\ pc = "event"
    /\ events < MaxKeys
    /\ events' = events + 1
    /\ pc' = block
    /\ UNCHANGED <<db, now, last, client, cycle, projvars, syncvars,
                   last_selected_project, current_user_id>>

Key ==
    /\ KeyThen("add_comment")
    /\ UNCHANGED <<refresh_issues, formvars, bulkvars>>

(* main: load_metadata before the loop; get_current_user may fail           *)
LoadMetadataReturns ==
    /\ pc = "load_metadata"
    /\ IF client
       THEN \E ok \in BOOLEAN :
               current_user_id' = IF ok THEN Some(CurrentUser) ELSE current_user_id
       ELSE UNCHANGED current_user_id
    /\ pc' = "add_comment"
    /\ UNCHANGED <<db, backstage, events, syncvars, last_selected_project,
                   selected_project, error_message, loadedvars, projects_list_state,
                   issues_list_state, filtervars, issue_sort_order, groupvars,
                   focused_pane, popupvars, handled>>

(* handle_normal_mode_key: KeyCode::Esc closes the issue popup or, with no  *)
(* popup open, clears the filters                                           *)
KeyEsc ==
    /\ Key
    /\ error_message' = NULL
    /\ IF show_issue_popup
       THEN /\ show_issue_popup' = FALSE
            /\ current_issue' = NULL
            /\ Handled("close popup")
            /\ UNCHANGED <<filtervars, loadedvars, projects_list_state,
                           issues_list_state, loading_issue, comment_issue_id>>
       ELSE /\ project_filter' = <<>>
            /\ issue_filter' = <<>>
            /\ my_issues_filter' = FALSE
            /\ apply_filters_with(db, [settings EXCEPT !.project_filter = <<>>,
                                                      !.issue_filter = <<>>,
                                                      !.my_issues_filter = FALSE])
            /\ Refreshed("clear filters")
            /\ UNCHANGED popupvars
    /\ UNCHANGED <<selected_project, issue_sort_order, groupvars, focused_pane>>

(* '/' , the characters of the query, and handle_search_mode_key:           *)
(* KeyCode::Enter                                                           *)
SearchQueries == {<<"l">>, <<"i">>, <<"1">>}

KeySearchEnter ==
    /\ Key
    /\ ~show_issue_popup
    /\ Refreshed("filter")
    /\ \E search_query \in SearchQueries :
         IF focused_pane = "Projects"
         THEN /\ project_filter' = search_query
              /\ apply_filters_with(db, [settings EXCEPT !.project_filter = search_query])
              /\ UNCHANGED <<issue_filter, my_issues_filter>>
         ELSE /\ issue_filter' = search_query
              /\ apply_filters_with(db, [settings EXCEPT !.issue_filter = search_query])
              /\ UNCHANGED <<project_filter, my_issues_filter>>
    /\ UNCHANGED <<selected_project, error_message, issue_sort_order, groupvars,
                   focused_pane, popupvars>>

next_sort_order(sort_order) ==
    CASE sort_order = "UpdatedDesc" -> "StatusAsc"
      [] sort_order = "StatusAsc" -> "StatusDesc"
      [] sort_order = "StatusDesc" -> "PriorityAsc"
      [] sort_order = "PriorityAsc" -> "PriorityDesc"
      [] sort_order = "PriorityDesc" -> "UpdatedDesc"

(* handle_main_screen_key: KeyCode::Char('s')                              *)
KeySort ==
    /\ Key
    /\ Refreshed("sort")
    /\ ~show_issue_popup
    /\ filtered_issues # <<>>
    /\ issue_sort_order' = next_sort_order(issue_sort_order)
    /\ apply_filters_on(db, [settings EXCEPT
                               !.issue_sort_order = next_sort_order(issue_sort_order)])
    /\ issues_list_state' = 0
    /\ UNCHANGED <<selected_project, error_message, filtervars, groupvars, focused_pane,
                   popupvars>>

(* KeyCode::Char('m')                                                       *)
KeyMyIssues ==
    /\ Key
    /\ ~show_issue_popup
    /\ IF current_user_id # NULL
       THEN /\ my_issues_filter' = ~my_issues_filter
            /\ Refreshed("my issues")
            /\ apply_filters_on(db, [settings EXCEPT !.my_issues_filter = ~my_issues_filter])
            /\ issues_list_state' = 0
            /\ UNCHANGED error_message
       ELSE /\ error_message' = Some("Loading user info...")
            /\ Handled("my issues, no user")
            /\ UNCHANGED <<my_issues_filter, loadedvars, projects_list_state,
                           issues_list_state>>
    /\ UNCHANGED <<selected_project, project_filter, issue_filter, issue_sort_order,
                   groupvars, focused_pane, popupvars>>

(* KeyCode::Char('g')                                                       *)
toggle_grouping ==
    /\ Handled("group")
    /\ ~show_issue_popup
    /\ filtered_issues # <<>>
    /\ group_issues_by_status' = ~group_issues_by_status
    /\ issues_list_state' = 0
    /\ UNCHANGED <<selected_project, error_message, loadedvars, projects_list_state,
                   filtervars, issue_sort_order, status_groups_collapsed, focused_pane,
                   popupvars>>

KeyGroup == Key /\ toggle_grouping

(* len.saturating_sub(1)                                                    *)
saturating_pred(len) == IF len = 0 THEN 0 ELSE len - 1

(* KeyCode::Down | KeyCode::Char('j')                                       *)
cursor_down ==
    /\ Handled("down")
    /\ ~show_issue_popup
    /\ IF focused_pane = "Projects"
       THEN /\ projects_list_state < saturating_pred(Len(filtered_projects))
            /\ projects_list_state' = projects_list_state + 1
            /\ UNCHANGED issues_list_state
       ELSE /\ issues_list_state <
                 saturating_pred(get_visible_items_count(
                     filtered_issues, group_issues_by_status, status_groups_collapsed))
            /\ issues_list_state' = issues_list_state + 1
            /\ UNCHANGED projects_list_state
    /\ UNCHANGED <<selected_project, error_message, loadedvars, filtervars,
                   issue_sort_order, groupvars, focused_pane, popupvars>>

KeyDown == Key /\ cursor_down

(* KeyCode::Up | KeyCode::Char('k')                                         *)
cursor_up ==
    /\ Handled("up")
    /\ ~show_issue_popup
    /\ IF focused_pane = "Projects"
       THEN /\ projects_list_state > 0
            /\ projects_list_state' = projects_list_state - 1
            /\ UNCHANGED issues_list_state
       ELSE /\ issues_list_state > 0
            /\ issues_list_state' = issues_list_state - 1
            /\ UNCHANGED projects_list_state
    /\ UNCHANGED <<selected_project, error_message, loadedvars, filtervars,
                   issue_sort_order, groupvars, focused_pane, popupvars>>

KeyUp == Key /\ cursor_up

(* KeyCode::Char(' ') in the issues pane, outside bulk mode: the group of   *)
(* the cursor collapses or expands                                          *)
toggle_group_collapse ==
    /\ Handled("space")
    /\ ~show_issue_popup
    /\ focused_pane = "Issues"
    /\ ~bulk_operation_mode
    /\ group_issues_by_status
    /\ LET group == get_current_status_group(filtered_issues, group_issues_by_status,
                                             status_groups_collapsed, issues_list_state)
       IN /\ group # NULL
          /\ status_groups_collapsed' =
                IF group[1] \in status_groups_collapsed
                THEN status_groups_collapsed \ {group[1]}
                ELSE status_groups_collapsed \cup {group[1]}
    /\ UNCHANGED <<selected_project, error_message, loadedvars, projects_list_state,
                   issues_list_state, filtervars, issue_sort_order,
                   group_issues_by_status, focused_pane, popupvars>>

KeySpace == Key /\ toggle_group_collapse

(* the model's projects have no parent, so the tree of the projects pane is *)
(* the list filtered_projects                                               *)
get_project_at_cursor(projects, cursor) ==
    IF cursor < Len(projects) THEN Some(projects[cursor + 1]) ELSE NULL

(* KeyCode::Enter: in the projects pane the project at the cursor is        *)
(* selected, in the issues pane the issue at the cursor is opened           *)
KeyEnter ==
    /\ Key
    /\ Handled("enter")
    /\ ~show_issue_popup
    /\ IF focused_pane = "Projects"
       THEN LET project == get_project_at_cursor(filtered_projects, projects_list_state)
            IN /\ project # NULL
               /\ selected_project' = Some(project[1].id)
               /\ focused_pane' = "Issues"
               /\ issues_list_state' = 0
               /\ UNCHANGED popupvars
       ELSE LET issue == get_issue_at_cursor(filtered_issues, group_issues_by_status,
                                             status_groups_collapsed, issues_list_state)
            IN /\ issue # NULL
               /\ loading_issue' = TRUE
               /\ current_issue' = issue
               /\ show_issue_popup' = TRUE
               /\ UNCHANGED <<selected_project, focused_pane, issues_list_state,
                              comment_issue_id>>
    /\ UNCHANGED <<error_message, loadedvars, projects_list_state, filtervars,
                   issue_sort_order, groupvars>>

(* KeyCode::Char('h') and KeyCode::Char('l')                                *)
KeyPane ==
    /\ Key
    /\ Handled("pane")
    /\ ~show_issue_popup
    /\ \/ focused_pane' = "Projects"
       \/ selected_project # NULL /\ focused_pane' = "Issues"
    /\ focused_pane' # focused_pane
    /\ UNCHANGED <<selected_project, error_message, loadedvars, projects_list_state,
                   issues_list_state, filtervars, issue_sort_order, groupvars, popupvars>>

(* 'r' in the issue popup, the fields of the form, and handle_reply_key:    *)
(* Ctrl+S                                                                   *)
KeySubmitReply ==
    /\ Key
    /\ Handled("reply")
    /\ show_issue_popup
    /\ current_issue # NULL
    /\ comment_issue_id' = Some(current_issue[1].id)
    /\ UNCHANGED <<selected_project, error_message, loadedvars, projects_list_state,
                   issues_list_state, filtervars, issue_sort_order, groupvars,
                   focused_pane, current_issue, show_issue_popup, loading_issue>>

(* ---- the blocks of the loop -------------------------------------------- *)
(* the time the remote service gives an issue it has just changed           *)
ViewLater == 9
(* the status the remote service reports for the issue asked for            *)
RemoteStatuses == {New, Closed}

(* the issue as the remote service describes it: the cached one, or changed *)
(* since                                                                    *)
RemoteIssue(d, issue_id, status_name) ==
    LET row == d.issues[issue_id]
    IN [id |-> issue_id, project |-> row.project_id,
        project_name |-> d.projects[row.project_id].name,
        status_name |-> status_name, priority_id |-> row.priority_id,
        assigned_to_id |-> row.assigned_to_id, subject |-> row.subject,
        description |-> row.description, start_date |-> NULL,
        updated_on |-> IF status_name = row.status_name
                       THEN parse_datetime_from_db(row.updated_on) ELSE ViewLater,
        journals |-> <<>>]

(* client.get_issues(Some(pid), "*", 100, 0): the issues of the project at  *)
(* the remote service, the one asked for before as it was described then    *)
RemoteList(d, pid, issue_id, status_name) ==
    LET ids == RowIds(issue_ids_of_project(d, pid))
    IN [k \in 1..Len(ids) |->
          RemoteIssue(d, ids[k],
                      IF ids[k] = issue_id THEN status_name
                      ELSE d.issues[ids[k]].status_name)]

(* load_issue_detail with a client: answer is the issue of Ok(response) or  *)
(* NULL for Err; the caller's loading_issue ends false                      *)
load_issue_detail(d, answer, t, failAt) ==
    IF answer = NULL
    THEN [db |-> d, error_message |-> Some("Failed to load issue"),
          current_issue |-> current_issue]
    ELSE LET stored == insert_issue_with_journals(d, answer[1], t, failAt)
         IN [db |-> stored.db,
             error_message |-> IF stored.ok THEN error_message
                               ELSE Some("Failed to store issue"),
             current_issue |-> answer]

(* "Handle add comment request": comment_issue_id.take() and                *)
(* add_comment_to_issue                                                     *)
LoopAddComment ==
    /\ pc = "add_comment"
    /\ pc' = "selection"
    /\ comment_issue_id' = NULL
    /\ IF comment_issue_id = NULL \/ ~client
       THEN /\ Handled("none")
            /\ UNCHANGED <<db, error_message, current_issue, loading_issue, loadedvars,
                           projects_list_state, issues_list_state>>
       ELSE \E updated \in BOOLEAN :
              IF ~updated
              THEN /\ error_message' = Some("Failed to update issue")
                   /\ Handled("update failed")
                   /\ UNCHANGED <<db, current_issue, loading_issue, loadedvars,
                                  projects_list_state, issues_list_state>>
              ELSE \E status_name \in RemoteStatuses, found, listed \in BOOLEAN,
                      failAt, listFailAt \in {0, 1} :
                     LET issue_id == comment_issue_id[1]
                         answer == IF found
                                   THEN Some(RemoteIssue(db, issue_id, status_name))
                                   ELSE NULL
                         detail == load_issue_detail(db, answer, now, failAt)
                         response == RemoteList(detail.db, selected_project[1], issue_id,
                                                status_name)
                         stored == insert_issues(detail.db, response, now, listFailAt)
                     IN /\ current_issue' = detail.current_issue
                        /\ loading_issue' = FALSE
                        /\ IF selected_project # NULL /\ listed
                           THEN /\ db' = stored.db
                                /\ error_message' =
                                      IF stored.ok THEN detail.error_message
                                      ELSE Some("Failed to update issues cache")
                                /\ apply_filters(db')
                                /\ Refreshed("update")
                           ELSE /\ db' = detail.db
                                /\ error_message' = detail.error_message
                                /\ Handled("update, lists kept")
                                /\ UNCHANGED <<loadedvars, projects_list_state,
                                               issues_list_state>>
    /\ UNCHANGED <<backstage, events, syncvars, last_selected_project, selected_project,
                   current_user_id, filtervars, issue_sort_order, groupvars,
                   focused_pane, show_issue_popup>>

(* "Handle project selection changes" on the main screen                    *)
ViewSelectionChange ==
    /\ SelectionChange
    /\ pc' = "issue_detail"
    /\ IF selection_changed THEN Refreshed("selection") ELSE Handled("none")
    /\ UNCHANGED <<filtervars, current_user_id, issue_sort_order, groupvars,
                   focused_pane, popupvars, formvars, bulkvars>>

(* "Handle issue detail loading": load_issue_detail for the issue of the    *)
(* popup; without a client the call does nothing and loading_issue stays    *)
LoopIssueDetail ==
    /\ pc = "issue_detail"
    /\ pc' = "event"
    /\ IF loading_issue /\ current_issue # NULL /\ client
       THEN \E status_name \in RemoteStatuses, found \in BOOLEAN, failAt \in {0, 1} :
              LET answer == IF found
                            THEN Some(RemoteIssue(db, current_issue[1].id, status_name))
                            ELSE NULL
                  detail == load_issue_detail(db, answer, now, failAt)
              IN /\ db' = detail.db
                 /\ error_message' = detail.error_message
                 /\ current_issue' = detail.current_issue
                 /\ loading_issue' = FALSE
                 /\ IF found /\ failAt = 0
                    THEN Handled("issue detail") ELSE Handled("issue detail failed")
       ELSE /\ Handled("none")
            /\ UNCHANGED <<db, error_message, current_issue, loading_issue>>
    /\ UNCHANGED <<backstage, events, syncvars, last_selected_project, selected_project,
                   current_user_id, loadedvars, projects_list_state, issues_list_state,
                   filtervars, issue_sort_order, groupvars, focused_pane,
                   show_issue_popup, comment_issue_id>>

(* ---- SpecView ----------------------------------------------------------- *)
(* two projects in the cache, Alpha with three issues and Beta with one     *)
ViewIssues ==
    <<ViewIssue(1, 1, Bug, New, 2, Some(CurrentUser), 3),
      ViewIssue(2, 1, Fix, InProgress, 1, NULL, 2),
      ViewIssue(3, 1, Bug, Closed, 3, NULL, 1),
      ViewIssue(4, 2, Fix, New, 2, NULL, 4)>>

InitView ==
    /\ db = CacheOf(ViewIssues)
    /\ now = 5
    /\ last = NoOp
    /\ client = TRUE
    /\ pc = "load_metadata"
    /\ AppNew
    /\ Loaded(db)

NextView ==
    \/ LoadMetadataReturns
    \/ LoopAddComment
    \/ ViewSelectionChange
    \/ LoopIssueDetail
    \/ KeyEsc
    \/ KeySearchEnter
    \/ KeySort
    \/ KeyMyIssues
    \/ KeyDown
    \/ KeyUp
    \/ KeyEnter
    \/ KeyPane
    \/ KeySubmitReply

SpecView == InitView /\ [][NextView]_vars

(* ---- SpecGroups --------------------------------------------------------- *)
(* the caches of the grouped pane: three issues of Alpha, newest first,     *)
(* with these statuses                                                      *)
GroupIssues(first, second, third) ==
    <<ViewIssue(1, 1, Bug, first, 2, NULL, 3),
      ViewIssue(2, 1, Fix, second, 1, NULL, 2),
      ViewIssue(3, 1, Bug, third, 3, NULL, 1),
      ViewIssue(4, 2, Fix, New, 2, NULL, 4)>>

InitGroups ==
    /\ db \in {CacheOf(GroupIssues(first, second, third)) :
                 first \in {New, Closed}, second \in {InProgress, FEEDBACK},
                 third \in {New, Rejected, Renewed}}
    /\ now = 5
    /\ last = NoOp
    /\ client = FALSE
    /\ pc = "add_comment"
    /\ AppNew
    /\ Loaded(db)

NextGroups ==
    \/ LoopAddComment
    \/ ViewSelectionChange
    \/ LoopIssueDetail
    \/ KeyEsc
    \/ KeySort
    \/ KeyGroup
    \/ KeyDown
    \/ KeyUp
    \/ KeySpace
    \/ KeyEnter

SpecGroups == InitGroups /\ [][NextGroups]_vars

-----------------------------------------------------------------------------
(* Properties of the main screen.                                           *)

(* the steps after which the cache or a setting of the lists has changed    *)
ListMutations ==
    {"filter", "clear filters", "sort", "my issues", "update", "update, lists kept",
     "issue detail"}

(* what get_issues and get_projects answer for the settings of the state    *)
QueriedIssues ==
    {get_issues(db, selected_project, issue_sort_order,
                IF issue_filter = <<>> THEN NULL ELSE Some(issue_filter),
                IF my_issues_filter THEN current_user_id ELSE NULL, ties) :
       ties \in TieOrders}

QueriedProjects ==
    {get_projects(db, IF project_filter = <<>> THEN NULL ELSE Some(project_filter), ties) :
       ties \in TieOrders}

(* C17: when the loop has handled a filter change, a sort change or a       *)
(* successful issue update (the reload of the issue detail included), the   *)
(* visible issues are what get_issues answers on the cache for the selected *)
(* project, sort order, text filter and assignee filter, and the visible    *)
(* projects are what get_projects answers for the project filter.           *)
C17_ListsAreTheQueries ==
    handled.by \in ListMutations =>
        /\ filtered_issues \in QueriedIssues
        /\ filtered_projects \in QueriedProjects

(* the steps that call apply_filters                                        *)
RefreshingSteps == {"filter", "clear filters", "sort", "my issues", "update", "selection"}

(* after a step that calls apply_filters the visible issues are what        *)
(* get_issues answers, put in the order of status_priority under the two    *)
(* status sort orders, and the visible projects are what get_projects       *)
(* answers                                                                  *)
C17_RefreshedListsAreTheView ==
    handled.by \in RefreshingSteps =>
        /\ filtered_issues \in {visible_issues(db, settings, ties) : ties \in TieOrders}
        /\ filtered_projects \in QueriedProjects

(* the visible lists change in no step but one that calls apply_filters     *)
C17_ListsAssignedInApplyFiltersOnly ==
    [][filtered_issues' # filtered_issues \/ filtered_projects' # filtered_projects
          => handled'.by \in RefreshingSteps]_vars

-----------------------------------------------------------------------------
(* Properties of the status-grouped pane.                                   *)

(* the cursor positions looked at: every row of the pane and some beyond    *)
Positions == 0..(2 * Len(filtered_issues) + 1)

item_at(cursor) ==
    get_issue_at_cursor(filtered_issues, group_issues_by_status,
                        status_groups_collapsed, cursor)
header_at(cursor) ==
    get_status_at_cursor(filtered_issues, group_issues_by_status,
                         status_groups_collapsed, cursor)
group_at(cursor) ==
    get_current_status_group(filtered_issues, group_issues_by_status,
                             status_groups_collapsed, cursor)
header_position(status_name) ==
    get_status_group_header_position(filtered_issues, group_issues_by_status,
                                     status_groups_collapsed, status_name)
visible_items_count ==
    get_visible_items_count(filtered_issues, group_issues_by_status,
                            status_groups_collapsed)

HelpersAgree ==
    /\ \A cursor \in Positions :
          item_at(cursor) # NULL =>
              /\ group_at(cursor) = Some(item_at(cursor)[1].status_name)
              /\ header_position(item_at(cursor)[1].status_name) # NULL
              /\ header_position(item_at(cursor)[1].status_name)[1] < cursor
    /\ \A cursor \in Positions :
          \A k \in 1..Len(filtered_issues) :
              header_position(filtered_issues[k].status_name) = Some(cursor) =>
                  /\ item_at(cursor) = NULL
                  /\ header_at(cursor) = Some(filtered_issues[k].status_name)
    /\ visible_items_count =
          Cardinality({cursor \in Positions :
                          item_at(cursor) # NULL \/ header_at(cursor) # NULL})

(* C18: in status-grouped mode, for the visible issues and the collapsed    *)
(* groups of the state and every cursor position: where                     *)
(* get_issue_at_cursor finds an issue, get_current_status_group is the      *)
(* status of that issue and get_status_group_header_position of the status  *)
(* is smaller than the cursor; where the cursor is the header position of a *)
(* status, get_issue_at_cursor finds no issue and get_status_at_cursor is   *)
(* that status; and get_visible_items_count is the number of positions      *)
(* with a header or an issue.                                               *)
C18_CursorHelpersAgree == group_issues_by_status => HelpersAgree

(* the helpers agree when the visible issues come in the order of           *)
(* status_priority, as under the sort order StatusAsc                       *)
C18_HelpersAgreeInRankOrder ==
    group_issues_by_status /\ issue_sort_order = "StatusAsc" => HelpersAgree

(* the cursor is a row of the list, or 0 on an empty list                   *)
InBounds(cursor, len) == cursor < len \/ (len = 0 /\ cursor = 0)

(* the handlers that set the issue cursor to 0 after apply_filters          *)
ResetsIssueCursor == {"sort", "my issues"}

(* C19: after every step that calls apply_filters the project cursor is     *)
(* smaller than the number of visible projects, or 0 when there are none,   *)
(* and the issue cursor is smaller than the number of visible issues, or 0  *)
(* when there are none; a cursor that is in bounds for the new list is      *)
(* where it was before the call.                                            *)
C19_CursorsClampedByApplyFilters ==
    handled.by \in RefreshingSteps =>
        /\ InBounds(projects_list_state, Len(filtered_projects))
        /\ InBounds(issues_list_state, Len(filtered_issues))
        /\ handled.projects_before < Len(filtered_projects)
              => projects_list_state = handled.projects_before
        /\ handled.by \notin ResetsIssueCursor
              /\ handled.issues_before < Len(filtered_issues)
              => issues_list_state = handled.issues_before

(* a filter has shortened the issue list to before the cursor, and the      *)
(* cursor is on the last issue left                                         *)
C19_Witness ==
    /\ handled.by = "filter"
    /\ filtered_issues # <<>>
    /\ handled.issues_before >= Len(filtered_issues)
    /\ issues_list_state = Len(filtered_issues) - 1

(* the rank the status names have in the pane: the first of the words that *)
(* the name holds, whatever the case of its letters                         *)
RankWords ==
    <<<<"p", "r", "o", "g", "r", "e", "s", "s">>,
      <<"f", "e", "e", "d", "b", "a", "c", "k">>,
      <<"n", "e", "w">>,
      <<"r", "e", "s", "o", "l", "v", "e", "d">>,
      <<"c", "l", "o", "s", "e", "d">>>>

HoldsWord(status_name, k) == contains(to_lowercase(status_name), RankWords[k])

RankOf(status_name) ==
    IF \E k \in 1..Len(RankWords) : HoldsWord(status_name, k)
    THEN CHOOSE k \in 1..Len(RankWords) :
            HoldsWord(status_name, k) /\ \A j \in 1..(k - 1) : ~HoldsWord(status_name, j)
    ELSE Len(RankWords) + 1

(* the headers of the pane, from the top                                    *)
Headers ==
    LET rows == SelectSeq(rows_by_rank(filtered_issues, status_groups_collapsed),
                          LAMBDA row : row.header)
    IN [k \in 1..Len(rows) |-> rows[k].status]

FirstAppearance(status_name) ==
    CHOOSE k \in 1..Len(filtered_issues) :
        /\ filtered_issues[k].status_name = status_name
        /\ \A j \in 1..(k - 1) : filtered_issues[j].status_name # status_name

(* C20: in the status-grouped pane every status of the visible issues has   *)
(* one header, and the headers come in the order of the rank of the name:   *)
(* names holding "progress" first, then "feedback", "new", "resolved",      *)
(* "closed", then every other name, whatever the case of the letters; only  *)
(* among names of equal rank does the order follow the order in which the   *)
(* issues came.                                                             *)
C20_HeadersInRankOrder ==
    group_issues_by_status =>
        /\ {Headers[k] : k \in 1..Len(Headers)} =
              {filtered_issues[k].status_name : k \in 1..Len(filtered_issues)}
        /\ \A a, b \in 1..Len(Headers) :
              a < b =>
                 /\ Headers[a] # Headers[b]
                 /\ RankOf(Headers[a]) <= RankOf(Headers[b])
                 /\ RankOf(Headers[a]) = RankOf(Headers[b])
                       => FirstAppearance(Headers[a]) < FirstAppearance(Headers[b])

(* three headers or more, in an order that is neither the order in which    *)
(* the statuses came nor the alphabetical one, two of them of equal rank    *)
C20_Witness ==
    /\ group_issues_by_status
    /\ Len(Headers) >= 3
    /\ Headers # statuses_by_appearance(filtered_issues)
    /\ \E a, b \in 1..Len(Headers) : a < b /\ BinaryLess(Headers[b], Headers[a])
    /\ \E a, b \in 1..Len(Headers) : a < b /\ RankOf(Headers[a]) = RankOf(Headers[b])

-----------------------------------------------------------------------------
(* The queries of the cache called on their own: SpecQuery.  The cache      *)
(* holds two projects and four issues; the subject, description, priority   *)
(* and assignee of issue 1 and the description of project Beta vary.        *)
OtherUser == CurrentUser + 1

QueryProjects(description) ==
    <<ViewProjects[1], [ViewProjects[2] EXCEPT !.description = description]>>

QueryIssues(subject, description, priority_id, assigned_to_id) ==
    <<[ViewIssue(1, 1, subject, New, priority_id, assigned_to_id, 4)
          EXCEPT !.description = description],
      ViewIssue(2, 1, Fix, New, 1, Some(OtherUser), 3),
      ViewIssue(12, 1, Fix, Closed, 2, NULL, 2),
      ViewIssue(3, 2, Bug, New, 2, Some(CurrentUser), 1)>>

QueryCache(projects, issues) ==
    insert_issues(insert_projects(EmptyDb, projects, 1, 0).db, issues, 1, 0).db

InitQuery ==
    /\ \E subject \in {Bug, Fix}, description \in {NULL, Some(Bug)},
          priority_id \in {1, 2}, project_description \in {NULL, Some(Bug)} :
          db = QueryCache(QueryProjects(project_description),
                          QueryIssues(subject, description, priority_id,
                                      Some(CurrentUser)))
    /\ now = 1
    /\ last = NoOp
    /\ AppInit

(* the most queries of one run                                              *)
MaxQueries == 1

SortOrders == {"UpdatedDesc", "PriorityAsc", "PriorityDesc"}

(* the filter texts: none, the empty one, letters in the other case than    *)
(* the rows have them, a digit, and a character LIKE reads as a wildcard    *)
FilterTexts ==
    {NULL, Some(<<>>), Some(<<"b", "u", "g">>), Some(<<"1">>), Some(<<"_">>)}

(* what a query leaves alone                                                *)
queried == <<db, now, client, selected_project, refresh_issues, syncvars, error_message,
             total_issues, last_selected_project, pc, cycle, projvars, listvars,
             viewvars>>

(* last.input: the arguments of the query; last.fetched: the rows returned  *)
DbGetIssues ==
    \E project_id \in {NULL, Some(1)}, sort_order \in SortOrders,
       filter \in FilterTexts, assigned_to_id \in {NULL, Some(CurrentUser)},
       ties \in TieOrders :
        /\ events < MaxQueries
        /\ events' = events + 1
        /\ last' = [NoOp EXCEPT
                      !.op = "get_issues",
                      !.input = Some([project_id |-> project_id,
                                      sort_order |-> sort_order, filter |-> filter,
                                      assigned_to_id |-> assigned_to_id]),
                      !.fetched = Some(get_issues(db, project_id, sort_order, filter,
                                                  assigned_to_id, ties))]
        /\ UNCHANGED queried

DbGetProjects ==
    \E filter \in FilterTexts, ties \in TieOrders :
        /\ events < MaxQueries
        /\ events' = events + 1
        /\ last' = [NoOp EXCEPT
                      !.op = "get_projects",
                      !.input = Some([filter |-> filter]),
                      !.fetched = Some(get_projects(db, filter, ties))]
        /\ UNCHANGED queried

NextQuery ==
    \/ DbGetIssues
    \/ DbGetProjects

SpecQuery == InitQuery /\ [][NextQuery]_vars

(* text holds f as a substring, the case of the letters ignored             *)
HoldsText(text, f) == contains(to_lowercase(text), to_lowercase(f))

Asked == last.input[1]
Fetched == last.fetched[1]
FetchedIds == {Fetched[k].id : k \in 1..Len(Fetched)}

NoFilter(filter) == filter = NULL \/ filter[1] = <<>>

IssueHoldsText(d, i, f) ==
    \/ HoldsText(d.issues[i].subject, f)
    \/ d.issues[i].description # NULL /\ HoldsText(d.issues[i].description[1], f)
    \/ HoldsText(CastAsText(i), f)

(* the issues the query is to return for the arguments asked                *)
IssuesAsked(d, asked) ==
    {i \in DOMAIN d.issues :
        /\ asked.project_id = NULL \/ d.issues[i].project_id = asked.project_id[1]
        /\ NoFilter(asked.filter) \/ IssueHoldsText(d, i, asked.filter[1])
        /\ asked.assigned_to_id = NULL
              \/ d.issues[i].assigned_to_id = asked.assigned_to_id}

Wildcards == {"%", "_"}
HasWildcard(filter) ==
    ~NoFilter(filter) /\ \E k \in 1..Len(filter[1]) : filter[1][k] \in Wildcards

(* C21: get_issues returns, each once, exactly the cached issues of the     *)
(* project asked for whose subject, description or decimal id holds the     *)
(* filter text as a substring (case ignored) and, with an assignee asked    *)
(* for, whose assignee is that one; no filter or an empty one keeps all.    *)
C21_IssuesHoldingTheFilter ==
    last.op = "get_issues" =>
        /\ FetchedIds = IssuesAsked(db, Asked)
        /\ Len(Fetched) = Cardinality(FetchedIds)

(* the same for the filter texts without a wildcard of LIKE                 *)
C21_IssuesHoldingPlainFilter ==
    last.op = "get_issues" /\ ~HasWildcard(Asked.filter) =>
        /\ FetchedIds = IssuesAsked(db, Asked)
        /\ Len(Fetched) = Cardinality(FetchedIds)

(* a text filter and an assignee together leave out an issue of the project *)
(* for each of the two reasons, and keep one                                *)
C21_PlainWitness ==
    /\ last.op = "get_issues"
    /\ Asked.project_id = Some(1)
    /\ Asked.filter = Some(<<"b", "u", "g">>)
    /\ Asked.assigned_to_id # NULL
    /\ FetchedIds = {1}
    /\ db.issues[1].subject = Fix

(* LIKE takes "_" of the filter as any one character                        *)
C21_WildcardReturnsMore ==
    /\ last.op = "get_issues"
    /\ HasWildcard(Asked.filter)
    /\ IssuesAsked(db, Asked) = {}
    /\ FetchedIds # {}

(* the same query under the other sort order, rows of equal key in the      *)
(* order ties                                                               *)
SameQuery(sort_order, ties) ==
    get_issues(db, Asked.project_id, sort_order, Asked.filter, Asked.assigned_to_id, ties)

SharedPriority(issues) ==
    \E a, b \in 1..Len(issues) : a # b /\ issues[a].priority_id = issues[b].priority_id

(* C22: for one cache and one set of filters, the rows of get_issues under  *)
(* PriorityDesc are the rows under PriorityAsc in the reverse order, also   *)
(* when issues share a priority id.                                         *)
C22_DescIsReverseOfAsc ==
    last.op = "get_issues" /\ Asked.sort_order = "PriorityDesc" =>
        \A ties \in TieOrders : Fetched = Reversed(SameQuery("PriorityAsc", ties))

(* the rows under PriorityAsc come with priority ids that never decrease,   *)
(* the rows under PriorityDesc with ids that never increase                 *)
C22_RowsInPriorityOrder ==
    last.op = "get_issues" =>
        \A k \in 1..(Len(Fetched) - 1) :
            /\ Asked.sort_order = "PriorityAsc"
                  => Fetched[k].priority_id <= Fetched[k + 1].priority_id
            /\ Asked.sort_order = "PriorityDesc"
                  => Fetched[k].priority_id >= Fetched[k + 1].priority_id

(* the two orders are the reverse of each other where no two rows share a   *)
(* priority id                                                              *)
C22_DescReversesDistinctPriorities ==
    last.op = "get_issues" /\ Asked.sort_order = "PriorityDesc" /\ ~SharedPriority(Fetched) =>
        \A ties \in TieOrders : Fetched = Reversed(SameQuery("PriorityAsc", ties))

C22_DistinctWitness ==
    /\ last.op = "get_issues"
    /\ Asked.sort_order = "PriorityDesc"
    /\ ~SharedPriority(Fetched)
    /\ Len(Fetched) >= 2

(* two rows of one priority id come in the same order under both sort       *)
(* orders                                                                   *)
C22_TiedRowsKeepTheirOrder ==
    /\ last.op = "get_issues"
    /\ Asked.sort_order = "PriorityDesc"
    /\ SharedPriority(Fetched)
    /\ \E ties \in TieOrders, a, b \in 1..Len(Fetched) :
          LET asc == SameQuery("PriorityAsc", ties)
          IN /\ a < b
             /\ Fetched[a].priority_id = Fetched[b].priority_id
             /\ \E x, y \in 1..Len(asc) :
                   x < y /\ asc[x] = Fetched[a] /\ asc[y] = Fetched[b]

ProjectHoldsText(row, f) ==
    \/ HoldsText(row.name, f)
    \/ HoldsText(row.identifier, f)
    \/ row.description # NULL /\ HoldsText(row.description[1], f)

(* the projects the query is to return for the filter asked                 *)
ProjectsAsked(d, asked) ==
    {p \in DOMAIN d.projects :
        NoFilter(asked.filter) \/ ProjectHoldsText(d.projects[p], asked.filter[1])}

(* C23: get_projects returns, each once, exactly the cached projects whose  *)
(* name, identifier or description holds the filter text as a substring,    *)
(* the case of the letters ignored; no filter or an empty one returns every *)
(* cached project.                                                          *)
C23_ProjectsHoldingTheFilter ==
    last.op = "get_projects" =>
        /\ FetchedIds = ProjectsAsked(db, Asked)
        /\ Len(Fetched) = Cardinality(FetchedIds)

(* the same for the filter texts without a wildcard of LIKE                 *)
C23_ProjectsHoldingPlainFilter ==
    last.op = "get_projects" /\ ~HasWildcard(Asked.filter) =>
        /\ FetchedIds = ProjectsAsked(db, Asked)
        /\ Len(Fetched) = Cardinality(FetchedIds)

(* a filter in lower case finds the one project whose description holds it  *)
(* with a capital                                                           *)
C23_PlainWitness ==
    /\ last.op = "get_projects"
    /\ Asked.filter = Some(<<"b", "u", "g">>)
    /\ FetchedIds = {2}
    /\ db.projects[2].description = Some(Bug)

C23_WildcardReturnsMore ==
    /\ last.op = "get_projects"
    /\ HasWildcard(Asked.filter)
    /\ ProjectsAsked(db, Asked) = {}
    /\ FetchedIds = DOMAIN db.projects

-----------------------------------------------------------------------------
(* The projects of the cache written again and again: SpecDbStamp.  The     *)
(* write operations of the store are called in any order; insert_projects   *)
(* reads the clock itself, and a storage-engine error may stop any of its   *)
(* statements.                                                              *)

(* history: the call follows a successful call with the same projects       *)
Repeated(projects) ==
    /\ last.op = "insert_projects"
    /\ last.ok
    /\ last.input[1].projects = projects

(* the projects as the remote service lists them: each project id once      *)
ProjectLists ==
    {ps \in BoundedSeq(ProjectInputs, Cardinality(ProjectIds)) : DistinctIds(ps)}

(* last.input: the projects handed in, and whether the call repeats the     *)
(* one before it                                                            *)
DbInsertProjectsNow ==
    \E projects \in ProjectLists, t \in now..MaxClock :
      \E failAt \in FailAt(AnyFailure, Len(projects) + 1) :
        LET r == insert_projects(db, projects, t, failAt)
        IN /\ db' = r.db
           /\ now' = t
           /\ last' = [NoOp EXCEPT !.op = "insert_projects", !.ok = r.ok,
                         !.failAt = Stage(failAt),
                         !.projects = {projects[k].id : k \in 1..Len(projects)},
                         !.input = Some([projects |-> projects,
                                         repeated |-> Repeated(projects)])]
           /\ UNCHANGED appvars

(* the users of the remote service                                          *)
UserInputs == [id : {CurrentUser}, login : {<<"u">>}]

DbInsertUsers ==
    \E users \in BoundedSeq(UserInputs, 1) :
      \E failAt \in FailAt(AnyFailure, Len(users) + 1) :
        LET r == insert_users(db, users, failAt)
        IN /\ db' = r.db
           /\ last' = [NoOp EXCEPT !.op = "insert_users", !.ok = r.ok,
                         !.failAt = Stage(failAt)]
           /\ UNCHANGED <<now, appvars>>

(* issue 1, of project 1                                                    *)
StampIssueInputs == {i \in IssueInputs({1}, {1}) : i.project = 1}

NextDbStamp ==
    \/ DbInsertProjectsNow
    \/ DbInsertUsers
    \/ DbInsertIssues(StampIssueInputs, NoFailure)
    \/ DbInsertIssueWithJournals(StampIssueInputs, NoFailure)
    \/ DbClearProjectIssues(NoFailure)
    \/ DbUpdateProjectLastActivity(NoFailure)

SpecDbStamp == InitDb /\ [][NextDbStamp]_vars

(* the rows of get_projects(None), by id                                    *)
ProjectRows(d) ==
    LET rows == get_projects(d, NULL, "rowid")
    IN {rows[k] : k \in 1..Len(rows)}

(* C24: a successful insert_projects that follows a successful              *)
(* insert_projects with the same projects leaves get_projects(None) with    *)
(* the same project ids and the same values in every field, the two         *)
(* per-project dates included; the projects_last_synced row may differ.     *)
C24_SecondUpsertChangesNoRow ==
    [][(last'.op = "insert_projects" /\ last'.ok /\ last'.input[1].repeated)
          => ProjectRows(db') = ProjectRows(db)]_vars

(* the second call, at a later time, of a batch of projects that have       *)
(* issues and a sync date                                                   *)
C24_Witness ==
    /\ last.op = "insert_projects"
    /\ last.ok
    /\ last.input[1].repeated
    /\ Len(last.input[1].projects) = Cardinality(ProjectIds)
    /\ get_last_projects_sync(db) = Some(MaxClock)
    /\ \E row \in ProjectRows(db) :
          /\ row.id \in last.projects
          /\ row.last_issue_activity # NULL
          /\ row.last_issues_sync # NULL

(* C25: the projects_last_synced row is absent from a fresh cache; a        *)
(* successful insert_projects leaves it present, with the time of the call; *)
(* a failed insert_projects and every call of insert_issues,                *)
(* insert_issue_with_journals, clear_project_issues, insert_users and       *)
(* update_project_last_activity leave it as it was.                         *)
C25_StampOnlyBySuccessfulUpsert ==
    /\ get_last_projects_sync(db) = NULL
    /\ [][IF last'.op = "insert_projects" /\ last'.ok
          THEN get_last_projects_sync(db') = Some(now')
          ELSE db'.metadata = db.metadata]_vars

(* a failed insert_projects, at a later time than the stamp the cache holds *)
C25_Witness ==
    /\ last.op = "insert_projects"
    /\ ~last.ok
    /\ get_last_projects_sync(db) # NULL
    /\ get_last_projects_sync(db) # Some(now)

-----------------------------------------------------------------------------
(* ---- The create form: SpecForm ------------------------------------------ *)
(* FieldValue: Text(String) and OptionId(Option<u64>), the two kinds the    *)
(* fields below hold                                                        *)
Text(s) == <<"Text", s>>
OptionId(o) == <<"OptionId", o>>

(* FieldValue::as_text, FieldValue::as_option_id                            *)
as_text(v) == IF v[1] = "Text" THEN Some(v[2]) ELSE NULL
as_option_id(v) == IF v[1] = "OptionId" THEN v[2] ELSE NULL

(* FormField::new_text, new_textarea, new_searchable_dropdown; options are  *)
(* the ids of the FieldOptions                                              *)
new_text(key, label, required) ==
    [key |-> key, label |-> label, field_type |-> "Text", required |-> required,
     options |-> <<>>, default_value |-> Some(Text(<<>>))]

new_textarea(key, label, required) ==
    [key |-> key, label |-> label, field_type |-> "TextArea", required |-> required,
     options |-> <<>>, default_value |-> Some(Text(<<>>))]

new_searchable_dropdown(key, label, options, required) ==
    [key |-> key, label |-> label, field_type |-> "SearchableDropdown",
     required |-> required, options |-> options,
     default_value |-> Some(OptionId(NULL))]

(* IssueForm::new; search_text, search_mode and scroll_offset are left out: *)
(* no key below enters the search of a dropdown, and scrolling is display   *)
IssueForm_new == [fields |-> <<>>, values |-> <<>>, current_field_idx |-> 0]

add_field(form, field) ==
    [form EXCEPT
       !.values = IF field.default_value # NULL
                  THEN (field.key :> field.default_value[1]) @@ @
                  ELSE @,
       !.fields = Append(@, field)]

(* usize::saturating_sub                                                    *)
saturating_sub(a, b) == IF a > b THEN a - b ELSE 0

(* next_field without the way back to the first field                      *)
next_field_past_end(form) == [form EXCEPT !.current_field_idx = @ + 1]

next_field(form) ==
    IF form.current_field_idx < saturating_sub(Len(form.fields), 1)
    THEN [form EXCEPT !.current_field_idx = @ + 1]
    ELSE [form EXCEPT !.current_field_idx = 0]

prev_field(form) ==
    IF form.current_field_idx > 0
    THEN [form EXCEPT !.current_field_idx = @ - 1]
    ELSE [form EXCEPT !.current_field_idx = saturating_sub(Len(form.fields), 1)]

(* Vec::get of the 0-based index                                            *)
get_current_field(form) ==
    IF form.current_field_idx < Len(form.fields)
    THEN Some(form.fields[form.current_field_idx + 1])
    ELSE NULL

get_value(form, key) ==
    IF key \in DOMAIN form.values THEN Some(form.values[key]) ELSE NULL

set_value(form, key, value) ==
    [form EXCEPT !.values = (key :> value) @@ @]

(* one required field of validate: the value it refuses                     *)
refused(value) ==
    \/ value = NULL
    \/ value[1][1] = "Text" /\ value[1][2] = <<>>
    \/ value[1][1] = "OptionId" /\ value[1][2] = NULL

(* the message of format!("{} is required", field.label)                    *)
is_required(label) == <<label, " is required">>

(* IssueForm::validate from field k on: Ok(()) is NULL, Err(e) is Some(e)   *)
RECURSIVE validate_from(_, _)
validate_from(form, k) ==
    IF k > Len(form.fields) THEN NULL
    ELSE IF form.fields[k].required /\ refused(get_value(form, form.fields[k].key))
         THEN Some(is_required(form.fields[k].label))
    ELSE validate_from(form, k + 1)

(* validate that looks at the first field only                              *)
validate_first_field(form) ==
    IF form.fields # <<>> /\ form.fields[1].required
                          /\ refused(get_value(form, form.fields[1].key))
    THEN Some(is_required(form.fields[1].label))
    ELSE NULL

validate(form) == validate_from(form, 1)

(* navigate_dropdown outside the search of the dropdown: get_filtered_options *)
(* is every option of the field                                             *)
navigate_dropdown(form, field_key, direction) ==
    LET field == form.fields[CHOOSE k \in 1..Len(form.fields) :
                                form.fields[k].key = field_key]
        options == field.options
        value == get_value(form, field_key)
        current_id == IF value = NULL THEN NULL ELSE as_option_id(value[1])
        found == IF current_id = NULL THEN {}
                 ELSE {k \in 1..Len(options) : options[k] = current_id[1]}
        current_idx == IF found = {} THEN 0
                       ELSE (CHOOSE k \in found : \A j \in found : k <= j) - 1
        new_idx == IF direction > 0 THEN (current_idx + 1) % Len(options)
                   ELSE IF current_idx > 0 THEN current_idx - 1
                   ELSE Len(options) - 1
    IN IF options = <<>> THEN form
       ELSE set_value(form, field_key, OptionId(Some(options[new_idx + 1])))

(* handle_text_field_input: KeyCode::Char('x') and KeyCode::Backspace       *)
handle_text_field_input(form, key, field_key) ==
    LET value == get_value(form, field_key)
        held == IF value = NULL THEN NULL ELSE as_text(value[1])
        text == IF held = NULL THEN <<>> ELSE held[1]
    IN CASE key = "Char" -> set_value(form, field_key, Text(Append(text, "x")))
         [] key = "Backspace" ->
               set_value(form, field_key,
                         Text(IF text = <<>> THEN <<>> ELSE SubSeq(text, 1, Len(text) - 1)))
         [] OTHER -> form

(* handle_searchable_dropdown_input of a dropdown that is not in search mode *)
handle_searchable_dropdown_input(form, key, field_key) ==
    CASE key = "Down" -> navigate_dropdown(form, field_key, 1)
      [] key = "Up" -> navigate_dropdown(form, field_key, -1)
      [] OTHER -> form

(* handle_form_input(key, false).  The tracker of the forms below has at    *)
(* most one option, so no key changes it to another tracker and the form is *)
(* never rebuilt for one                                                    *)
handle_form_input(form, key) ==
    LET current == get_current_field(form)
    IN IF current = NULL THEN form
       ELSE CASE current[1].field_type \in {"Text", "TextArea"} ->
                    handle_text_field_input(form, key, current[1].key)
              [] current[1].field_type = "SearchableDropdown" ->
                    handle_searchable_dropdown_input(form, key, current[1].key)

(* submit_new_issue                                                         *)
submit_new_issue ==
    IF create_issue_form # NULL
    THEN IF validate(create_issue_form[1]) # NULL
         THEN /\ error_message' = validate(create_issue_form[1])
              /\ UNCHANGED <<create_new_issue_flag, show_create_issue_form, input_mode>>
         ELSE /\ create_new_issue_flag' = TRUE
              /\ show_create_issue_form' = FALSE
              /\ input_mode' = "Normal"
              /\ UNCHANGED error_message
    ELSE /\ error_message' = Some("Form not initialized")
         /\ UNCHANGED <<create_new_issue_flag, show_create_issue_form, input_mode>>

(* one key event of handle_create_issue_key, handled while the loop waits   *)
(* for it; of the blocks of the loop body only "Handle create new issue     *)
(* request" follows, the flags of the others being false in every state of  *)
(* SpecForm                                                                 *)
mainvars == <<selected_project, last_selected_project, total_issues, listvars,
              filtervars, current_user_id, issue_sort_order, groupvars, focused_pane,
              popupvars>>

FormKey(name) ==
    /\ pc = "event"
    /\ events < MaxKeys
    /\ input_mode = "CreatingIssue"
    /\ events' = events + 1
    /\ pc' = "create_issue"
    /\ Handled(name)
    /\ UNCHANGED <<db, now, last, client, refresh_issues, cycle, projvars, syncvars,
                   mainvars, bulkvars>>

(* KeyCode::Tab; no dropdown is in search mode                              *)
FormKeyTab ==
    /\ FormKey("tab")
    /\ create_issue_form' = IF create_issue_form = NULL THEN NULL
                            ELSE Some(next_field(create_issue_form[1]))
    /\ UNCHANGED <<show_create_issue_form, create_new_issue_flag, input_mode,
                   error_message>>

(* KeyCode::BackTab                                                         *)
FormKeyBackTab ==
    /\ FormKey("backtab")
    /\ create_issue_form' = IF create_issue_form = NULL THEN NULL
                            ELSE Some(prev_field(create_issue_form[1]))
    /\ UNCHANGED <<show_create_issue_form, create_new_issue_flag, input_mode,
                   error_message>>

(* the keys that go to handle_form_input                                    *)
FormInputKeys == {"Char", "Backspace", "Down", "Up"}

FormKeyInput ==
    /\ FormKey("input")
    /\ \E key \in FormInputKeys :
          create_issue_form' = IF create_issue_form = NULL THEN NULL
                               ELSE Some(handle_form_input(create_issue_form[1], key))
    /\ UNCHANGED <<show_create_issue_form, create_new_issue_flag, input_mode,
                   error_message>>

(* Ctrl+S                                                                   *)
FormKeyCtrlS ==
    /\ FormKey("submit")
    /\ submit_new_issue
    /\ UNCHANGED create_issue_form

(* KeyCode::Esc                                                             *)
FormKeyEsc ==
    /\ FormKey("esc")
    /\ show_create_issue_form' = FALSE
    /\ input_mode' = "Normal"
    /\ create_issue_form' = NULL
    /\ UNCHANGED <<create_new_issue_flag, error_message>>

(* the Option<u64> of a dropdown of the form, None without the field        *)
option_of(form, key) ==
    IF get_value(form, key) = NULL THEN NULL ELSE as_option_id(get_value(form, key)[1])

(* the text of a field of the form, "" without it                           *)
text_of(form, key) ==
    IF get_value(form, key) = NULL \/ as_text(get_value(form, key)[1]) = NULL THEN <<>>
    ELSE as_text(get_value(form, key)[1])[1]

(* create_new_issue: the first of tracker, status and priority the form     *)
(* does not hold, the Err of the `?`                                        *)
create_refused(form) ==
    IF option_of(form, "tracker_id") = NULL THEN Some("Tracker is required")
    ELSE IF option_of(form, "status_id") = NULL THEN Some("Status is required")
    ELSE IF option_of(form, "priority_id") = NULL THEN Some("Priority is required")
    ELSE NULL

(* response.issue of client.create_issue: the issue as asked for, under the *)
(* next id of the remote service                                            *)
CreatedIssue(d, project, form) ==
    ViewIssue(1 + (CHOOSE i \in DOMAIN d.issues : \A j \in DOMAIN d.issues : j <= i),
              project, text_of(form, "subject"), New, option_of(form, "priority_id")[1],
              option_of(form, "assigned_to_id"), ViewLater)

(* "Handle create new issue request": the flag is taken and create_new_issue *)
(* runs; no attachment is pending                                           *)
LoopCreateIssue ==
    /\ pc = "create_issue"
    /\ pc' = "event"
    /\ create_new_issue_flag' = FALSE
    /\ IF ~create_new_issue_flag
       THEN /\ Handled("none")
            /\ UNCHANGED <<db, error_message, loadedvars, projects_list_state,
                           issues_list_state>>
       ELSE IF ~client \/ selected_project = NULL \/ create_issue_form = NULL
       THEN /\ Handled("create skipped")
            /\ UNCHANGED <<db, error_message, loadedvars, projects_list_state,
                           issues_list_state>>
       ELSE IF create_refused(create_issue_form[1]) # NULL
       THEN /\ error_message' = Some(<<"Failed to create issue: ",
                                       create_refused(create_issue_form[1])[1]>>)
            /\ Handled("create refused")
            /\ UNCHANGED <<db, loadedvars, projects_list_state, issues_list_state>>
       ELSE \E created \in BOOLEAN, failAt \in {0, 1} :
              IF ~created
              THEN /\ error_message' = Some("Failed to create issue")
                   /\ Handled("create failed")
                   /\ UNCHANGED <<db, loadedvars, projects_list_state,
                                  issues_list_state>>
              ELSE LET issue == CreatedIssue(db, selected_project[1],
                                             create_issue_form[1])
                       stored == insert_issue_with_journals(db, issue, now, failAt)
                   IN /\ db' = stored.db
                      /\ error_message' = IF stored.ok THEN error_message
                                          ELSE Some("Failed to store issue")
                      /\ apply_filters(db')
                      /\ Refreshed("create")
    /\ UNCHANGED <<now, last, client, refresh_issues, cycle, projvars, syncvars, events,
                   selected_project, last_selected_project, filtervars, current_user_id,
                   issue_sort_order, groupvars, focused_pane, popupvars,
                   create_issue_form, show_create_issue_form, input_mode, bulkvars>>

(* ---- SpecForm ----------------------------------------------------------- *)
(* the most fields of one form                                              *)
MaxFields == 3

(* the Option<u64> a dropdown of new_issue_form_with_custom_fields starts   *)
(* with: the id of the first row of the metadata, the rows being too few    *)
(* for one to bear the preferred name beside another                        *)
first_id(rows) == IF rows = <<>> THEN NULL ELSE Some(rows[1])

(* the first six fields of new_issue_form_with_custom_fields, for one       *)
(* status, one priority and no user; the subject as the form has it, or     *)
(* with no default as test_form_validation_required_fields has it           *)
CreateFields(trackers, subject_default) ==
    <<[new_searchable_dropdown("tracker_id", "Tracker", trackers, TRUE)
          EXCEPT !.default_value = Some(OptionId(first_id(trackers)))],
      [new_text("subject", "Subject", TRUE) EXCEPT !.default_value = subject_default],
      new_textarea("description", "Description", FALSE),
      [new_searchable_dropdown("status_id", "Status", <<1>>, TRUE)
          EXCEPT !.default_value = Some(OptionId(first_id(<<1>>)))],
      [new_searchable_dropdown("priority_id", "Priority", <<1>>, TRUE)
          EXCEPT !.default_value = Some(OptionId(first_id(<<1>>)))],
      new_searchable_dropdown("assigned_to_id", "Assignee", <<0>>, FALSE)>>

(* IssueForm::new and one add_field for each of the first k fields          *)
RECURSIVE FormOf(_, _)
FormOf(fields, k) ==
    IF k = 0 THEN IssueForm_new ELSE add_field(FormOf(fields, k - 1), fields[k])

(* the forms: any one to MaxFields of the fields above, in their order      *)
Forms ==
    {LET all == CreateFields(trackers, subject_default)
         picked == RowIds(S)
     IN FormOf([k \in 1..Len(picked) |-> all[picked[k]]], Len(picked)) :
       <<trackers, subject_default, S>> \in
          {<<>>, <<1>>} \X {Some(Text(<<>>)), NULL}
             \X {S \in SUBSET (1..6) : Cardinality(S) \in 1..MaxFields}}

(* the create form open over the issues of project Alpha                    *)
InitForm ==
    /\ db = CacheOf(ViewIssues)
    /\ now = 5
    /\ last = NoOp
    /\ client = TRUE
    /\ pc = "event"
    /\ selected_project = Some(1)
    /\ last_selected_project = Some(1)
    /\ refresh_issues = FALSE
    /\ issues_loading_in_progress = FALSE
    /\ issues_loaded_count = 0
    /\ issues_total_count = 0
    /\ issues_temp_buffer = <<>>
    /\ loading = FALSE
    /\ error_message = NULL
    /\ cycle = NoCycle
    /\ events = 0
    /\ refresh_projects = FALSE
    /\ all_projects = <<>>
    /\ projects_offset = 0
    /\ psync = NoProjectsSync
    /\ projects_list_state = 0
    /\ issues_list_state = 0
    /\ project_filter = <<>>
    /\ issue_filter = <<>>
    /\ my_issues_filter = FALSE
    /\ current_user_id = Some(CurrentUser)
    /\ issue_sort_order = "UpdatedDesc"
    /\ group_issues_by_status = FALSE
    /\ status_groups_collapsed = {}
    /\ focused_pane = "Issues"
    /\ current_issue = NULL
    /\ show_issue_popup = FALSE
    /\ loading_issue = FALSE
    /\ comment_issue_id = NULL
    /\ handled = NotHandled
    /\ Loaded(db)
    /\ create_issue_form \in {Some(form) : form \in Forms}
    /\ show_create_issue_form = TRUE
    /\ create_new_issue_flag = FALSE
    /\ input_mode = "CreatingIssue"
    /\ bulk_operation_mode = FALSE
    /\ selected_issues = {}
    /\ bulk_edit_form = NULL
    /\ execute_bulk_update_flag = FALSE
    /\ load_users_project_id = NULL
    /\ statuses = <<1>>
    /\ priorities = <<1>>
    /\ app_users = <<>>

NextForm ==
    \/ FormKeyTab
    \/ FormKeyBackTab
    \/ FormKeyInput
    \/ FormKeyCtrlS
    \/ FormKeyEsc
    \/ LoopCreateIssue

SpecForm == InitForm /\ [][NextForm]_vars

(* ---- navigation in the form --------------------------------------------- *)
(* C26: in a form of n >= 1 fields next_field moves the index from i to     *)
(* i + 1 and from n - 1 to 0, prev_field moves it from i to i - 1 and from  *)
(* 0 to n - 1; the index stays below n, and prev_field after next_field, or *)
(* next_field after prev_field, gives the form back.                        *)
C26_NavigationWraps ==
    /\ [](create_issue_form # NULL =>
            LET form == create_issue_form[1]
            IN /\ Len(form.fields) >= 1
               /\ form.current_field_idx < Len(form.fields)
               /\ prev_field(next_field(form)) = form
               /\ next_field(prev_field(form)) = form)
    /\ [][(create_issue_form # NULL /\ pc = "event" /\ handled'.by = "tab") =>
             LET i == create_issue_form[1].current_field_idx
                 n == Len(create_issue_form[1].fields)
             IN create_issue_form'[1].current_field_idx = IF i = n - 1 THEN 0 ELSE i + 1]_vars
    /\ [][(create_issue_form # NULL /\ pc = "event" /\ handled'.by = "backtab") =>
             LET i == create_issue_form[1].current_field_idx
                 n == Len(create_issue_form[1].fields)
             IN create_issue_form'[1].current_field_idx = IF i = 0 THEN n - 1 ELSE i - 1]_vars

(* Tab has led from the last of MaxFields fields back to the first          *)
C26_Witness ==
    /\ create_issue_form # NULL
    /\ handled.by = "tab"
    /\ Len(create_issue_form[1].fields) = MaxFields
    /\ create_issue_form[1].current_field_idx = 0

(* ---- validation before the create request ------------------------------- *)
(* some required field of the form has no value, an empty text or an unset  *)
(* option                                                                   *)
RequiredUnfilled(form) ==
    \E k \in 1..Len(form.fields) :
       /\ form.fields[k].required
       /\ \/ form.fields[k].key \notin DOMAIN form.values
          \/ form.values[form.fields[k].key] = Text(<<>>)
          \/ form.values[form.fields[k].key] = OptionId(NULL)

(* C27: validate fails exactly when some required field has no value, an    *)
(* empty text or an unset option; Ctrl+S on a form that fails sets the      *)
(* error message, leaves the form open and create_new_issue_flag false, and *)
(* the block of the loop that follows calls neither the remote service nor  *)
(* the cache.                                                               *)
C27_ValidationGuardsCreate ==
    /\ [](create_issue_form # NULL =>
            (validate(create_issue_form[1]) # NULL
               <=> RequiredUnfilled(create_issue_form[1])))
    /\ [][(/\ pc = "event"
           /\ handled'.by = "submit"
           /\ create_issue_form # NULL
           /\ RequiredUnfilled(create_issue_form[1]))
          => /\ error_message' # NULL
             /\ show_create_issue_form'
             /\ create_issue_form' = create_issue_form
             /\ input_mode' = "CreatingIssue"
             /\ ~create_new_issue_flag']_vars
    /\ [][(/\ pc = "create_issue"
           /\ handled.by = "submit"
           /\ create_issue_form # NULL
           /\ RequiredUnfilled(create_issue_form[1]))
          => /\ handled'.by = "none"
             /\ db' = db
             /\ create_issue_form' = create_issue_form
             /\ show_create_issue_form']_vars

(* Ctrl+S on a form whose required subject has no value and whose tracker   *)
(* is set: the message names the subject and the form is still open         *)
C27_Witness ==
    /\ pc = "create_issue"
    /\ handled.by = "submit"
    /\ create_issue_form # NULL
    /\ "subject" \notin DOMAIN create_issue_form[1].values
    /\ \E k \in 1..Len(create_issue_form[1].fields) :
          create_issue_form[1].fields[k].key = "subject"
    /\ option_of(create_issue_form[1], "tracker_id") # NULL
    /\ error_message = Some(is_required("Subject"))
    /\ show_create_issue_form
    /\ ~create_new_issue_flag

-----------------------------------------------------------------------------
(* ---- the project of a sync cycle ---------------------------------------- *)
(* C28: every page of a sync cycle is requested for the project that was    *)
(* selected when the cycle began, and the batch handed to insert_issues     *)
(* holds issues of that project only, also when another project is selected *)
(* between two pages.                                                       *)
C28_PagesOfTheProjectAtBegin ==
    /\ \A k \in 1..Len(cycle.pages) : Some(cycle.pages[k].project) = cycle.project
    /\ \A f \in 1..Len(cycle.flushes) :
          \A k \in 1..Len(cycle.flushes[f]) :
             Some(cycle.flushes[f][k].project) = cycle.project

(* a batch handed to insert_issues holds issues of two projects             *)
C28_BatchOfTwoProjects ==
    \E f \in 1..Len(cycle.flushes) :
       \E j, k \in 1..Len(cycle.flushes[f]) :
          cycle.flushes[f][j].project # cycle.flushes[f][k].project

-----------------------------------------------------------------------------
(* ---- the sync without a total count ------------------------------------- *)
(* C30: with no total_count reported the issue sync goes on until a page    *)
(* shorter than limit is returned: a page of limit issues is followed by    *)
(* another request and hands nothing to insert_issues; only a shorter page  *)
(* ends the cycle, so the batch holds every page of the project.            *)
C30_FullPageAsksForMore ==
    [][(Answered /\ cycle'.resp = "ok")
         => IF cycle'.received = limit
            THEN cycle'.ret = "Ok(false)" /\ ~Flushed /\ issues_loading_in_progress'
            ELSE cycle'.ret = "Ok(true)" /\ Flushed]_vars

(* one page of limit issues was the whole cycle: it was handed to           *)
(* insert_issues and the controller is idle                                 *)
C30_StoppedAfterFullPage ==
    /\ cycle.resp = "ok"
    /\ cycle.received = limit
    /\ cycle.requests = <<0>>
    /\ Len(cycle.flushes) = 1
    /\ Len(cycle.flushes[1]) = limit
    /\ ~issues_loading_in_progress

-----------------------------------------------------------------------------
(* ---- the end of a sync cycle: SpecFair ---------------------------------- *)
(* the loop keeps running: every block of its body that is reached runs to  *)
(* its end, every call of client.get_issues returns, and the tick of the    *)
(* event source arrives when no key does.  The selection block is named by  *)
(* its step of pc, the only step from "selection" to "event".               *)
SpecFair ==
    /\ Init
    /\ [][Next]_vars
    /\ WF_vars(LoopRefreshIssues)
    /\ WF_vars(LoopNextPage)
    /\ WF_vars(GetIssuesReturns)
    /\ WF_pc(pc = "selection" /\ pc' = "event")
    /\ WF_vars(EventTick)

(* C29: every sync that is in progress returns to idle with the loading     *)
(* indicator cleared, however it was started, with or without a client.     *)
C29_SyncReturnsToIdle ==
    issues_loading_in_progress ~> (~issues_loading_in_progress /\ ~loading)

(* with a client every sync that is in progress returns to idle             *)
C29_SyncWithClientReturnsToIdle ==
    (client /\ issues_loading_in_progress) ~> (~issues_loading_in_progress /\ ~loading)

(* a sync in progress without a client, after load_issues_next_page         *)
(* returned Ok(true)                                                        *)
C29_StuckWithoutClient ==
    /\ ~client
    /\ issues_loading_in_progress
    /\ loading
    /\ cycle.ret = "Ok(true)"

-----------------------------------------------------------------------------
(* Bulk mode: src/app/bulk_operations.rs, the bulk keys of                  *)
(* handle_main_screen_key and handle_bulk_editing_key, and the blocks        *)
(* "Handle load users request" and "Handle bulk update execution" of the    *)
(* loop of run_app.                                                         *)
(*   SpecBulk    the issues pane of project Alpha, flat or grouped, under   *)
(*               the bulk keys, with the sync the bulk update asks for.     *)

(* toggle_bulk_mode with the selection kept on the way out                  *)
toggle_bulk_mode_keeps_selection ==
    /\ bulk_operation_mode' = ~bulk_operation_mode
    /\ UNCHANGED selected_issues

toggle_bulk_mode ==
    /\ bulk_operation_mode' = ~bulk_operation_mode
    /\ selected_issues' = IF ~bulk_operation_mode' THEN {} ELSE selected_issues

(* the HashSet with the id removed if it is held and inserted if not        *)
toggled(selected, issue_id) ==
    IF issue_id \in selected THEN selected \ {issue_id} ELSE selected \cup {issue_id}

(* toggle_issue_selection: self.filtered_issues.get(self.issues_list_state) *)
toggle_issue_selection ==
    IF ~bulk_operation_mode THEN UNCHANGED selected_issues
    ELSE IF issues_list_state < Len(filtered_issues)
    THEN selected_issues' = toggled(selected_issues,
                                    filtered_issues[issues_list_state + 1].id)
    ELSE UNCHANGED selected_issues

select_all_issues ==
    IF ~bulk_operation_mode THEN UNCHANGED selected_issues
    ELSE selected_issues' = selected_issues
                               \cup {filtered_issues[k].id : k \in 1..Len(filtered_issues)}

deselect_all_issues == selected_issues' = {}

(* navigate_bulk_dropdown outside the search of the dropdown                *)
navigate_bulk_dropdown(form, field_key, direction) ==
    LET field == form.fields[CHOOSE k \in 1..Len(form.fields) :
                                form.fields[k].key = field_key]
        filtered == field.options
        value == get_value(form, field_key)
        current_id == IF value = NULL THEN NULL ELSE as_option_id(value[1])
        found == IF current_id = NULL THEN {}
                 ELSE {k \in 1..Len(filtered) : filtered[k] = current_id[1]}
        current_idx == (CHOOSE k \in found : \A j \in found : k <= j) - 1
        new_idx == IF current_id = NULL
                   THEN (IF direction < 0 THEN Len(filtered) - 1 ELSE 0)
                   ELSE IF found = {} THEN 0
                   ELSE IF direction < 0
                   THEN (IF current_idx > 0 THEN current_idx - 1 ELSE Len(filtered) - 1)
                   ELSE (IF current_idx < Len(filtered) - 1 THEN current_idx + 1 ELSE 0)
    IN IF filtered = <<>> THEN form
       ELSE set_value(form, field_key, OptionId(Some(filtered[new_idx + 1])))

(* the users but the one of id 0, in the order of their names: the model's  *)
(* users bear their ids as names                                            *)
user_options(rows) == <<0>> \o SelectSeq(rows, LAMBDA id : id # 0)

(* IssueForm::bulk_edit_form: three optional searchable dropdowns           *)
bulk_edit_form_of(status_rows, priority_rows, user_rows) ==
    add_field(add_field(add_field(IssueForm_new,
        [new_searchable_dropdown("status_id", "Status", status_rows, FALSE)
            EXCEPT !.default_value = Some(OptionId(first_id(status_rows)))]),
        [new_searchable_dropdown("priority_id", "Priority", priority_rows, FALSE)
            EXCEPT !.default_value = Some(OptionId(first_id(priority_rows)))]),
        [new_searchable_dropdown("assigned_to_id", "Assignee", user_options(user_rows),
                                 FALSE)
            EXCEPT !.default_value = Some(OptionId(Some(0)))])

show_bulk_edit_form ==
    IF selected_issues = {}
    THEN /\ error_message' = Some("No issues selected")
         /\ UNCHANGED <<bulk_edit_form, input_mode, load_users_project_id>>
    ELSE IF statuses = <<>> /\ priorities = <<>>
    THEN /\ error_message' = Some("Required data not loaded. Please refresh.")
         /\ UNCHANGED <<bulk_edit_form, input_mode, load_users_project_id>>
    ELSE IF app_users = <<>> /\ selected_project # NULL
    THEN /\ load_users_project_id' = selected_project
         /\ UNCHANGED <<bulk_edit_form, input_mode, error_message>>
    ELSE /\ bulk_edit_form' = Some(bulk_edit_form_of(statuses, priorities, app_users))
         /\ input_mode' = "BulkEditing"
         /\ UNCHANGED <<load_users_project_id, error_message>>

cancel_bulk_edit_form ==
    /\ bulk_edit_form' = NULL
    /\ input_mode' = "Normal"

execute_bulk_edit ==
    /\ execute_bulk_update_flag' = TRUE
    /\ cancel_bulk_edit_form

(* execute_bulk_update: client.update_issue fails for any of the selected   *)
(* issues; the form is closed by now, so the update carries no field        *)
execute_bulk_update ==
    IF selected_issues = {}
    THEN /\ Handled("bulk update of nothing")
         /\ UNCHANGED <<bulk_operation_mode, selected_issues, error_message,
                        refresh_issues>>
    ELSE IF ~client
    THEN /\ error_message' = Some("Bulk update failed: No API client")
         /\ Handled("bulk update without client")
         /\ UNCHANGED <<bulk_operation_mode, selected_issues, refresh_issues>>
    ELSE \E failed_issues \in SUBSET selected_issues :
           /\ bulk_operation_mode' = FALSE
           /\ selected_issues' = {}
           /\ error_message' = IF failed_issues = {} THEN error_message
                               ELSE Some("Updated some issues. Failed issues")
           /\ refresh_issues' = TRUE
           /\ Handled(IF failed_issues = {} THEN "bulk update"
                      ELSE "bulk update failed")

(* the members get_project_memberships answers with                         *)
Memberships == {<<>>, <<CurrentUser>>}

(* load_project_users: the members after the user "(None)" of id 0, or the  *)
(* users as they were when the request fails or no client exists; the       *)
(* create form is closed and is not rebuilt                                 *)
load_project_users ==
    IF client
    THEN \E answered \in BOOLEAN, members \in Memberships :
            app_users' = IF answered THEN <<0>> \o members ELSE app_users
    ELSE UNCHANGED app_users

(* the blocks of the loop body between the paged sync and the events:       *)
(* "Handle load users request", "Handle bulk update execution" and "Handle  *)
(* project selection changes", the selected project being the one the loop  *)
(* has seen; no issue is created, commented or opened                       *)
LoopBulkUpdate ==
    /\ pc = "selection"
    /\ pc' = "event"
    /\ ~selection_changed
    /\ load_users_project_id' = NULL
    /\ IF load_users_project_id # NULL THEN load_project_users
       ELSE UNCHANGED app_users
    /\ execute_bulk_update_flag' = FALSE
    /\ IF execute_bulk_update_flag THEN execute_bulk_update
       ELSE /\ Handled("none")
            /\ UNCHANGED <<bulk_operation_mode, selected_issues, error_message,
                           refresh_issues>>
    /\ cycle' = Quiet(cycle)
    /\ UNCHANGED <<db, now, last, client, projvars, syncvars, events, selected_project,
                   last_selected_project, loadedvars, projects_list_state,
                   issues_list_state, filtervars, current_user_id, issue_sort_order,
                   groupvars, focused_pane, popupvars, formvars, bulk_edit_form,
                   statuses, priorities>>

(* a key of the main screen that leaves bulk mode alone                     *)
PaneKey ==
    /\ KeyThen("refresh_issues")
    /\ input_mode = "Normal"
    /\ UNCHANGED <<refresh_issues, formvars, bulkvars>>

PaneKeyGroup == PaneKey /\ toggle_grouping
PaneKeyDown == PaneKey /\ cursor_down
PaneKeyUp == PaneKey /\ cursor_up
PaneKeySpace == PaneKey /\ toggle_group_collapse

(* a bulk key of handle_main_screen_key                                     *)
BulkKey(name) ==
    /\ KeyThen("refresh_issues")
    /\ input_mode = "Normal"
    /\ ~show_issue_popup
    /\ Handled(name)
    /\ UNCHANGED <<refresh_issues, create_issue_form, show_create_issue_form,
                   create_new_issue_flag, execute_bulk_update_flag, metavars,
                   selected_project, loadedvars, projects_list_state,
                   issues_list_state, filtervars, issue_sort_order, groupvars,
                   focused_pane, popupvars>>

(* KeyCode::Char('b') | KeyCode::Char('B')                                  *)
KeyBulkMode ==
    /\ BulkKey("bulk mode")
    /\ focused_pane = "Issues"
    /\ filtered_issues # <<>>
    /\ toggle_bulk_mode
    /\ UNCHANGED <<error_message, bulk_edit_form, load_users_project_id, input_mode>>

(* KeyCode::Char('a') if self.bulk_operation_mode                           *)
KeySelectAll ==
    /\ BulkKey("select all")
    /\ bulk_operation_mode
    /\ select_all_issues
    /\ UNCHANGED <<error_message, bulk_operation_mode, bulk_edit_form,
                   load_users_project_id, input_mode>>

(* KeyCode::Char('A') if self.bulk_operation_mode                           *)
KeyDeselectAll ==
    /\ BulkKey("deselect all")
    /\ bulk_operation_mode
    /\ deselect_all_issues
    /\ UNCHANGED <<error_message, bulk_operation_mode, bulk_edit_form,
                   load_users_project_id, input_mode>>

(* KeyCode::Char('x') if self.bulk_operation_mode                           *)
KeyBulkEdit ==
    /\ BulkKey("bulk edit")
    /\ bulk_operation_mode
    /\ show_bulk_edit_form
    /\ UNCHANGED <<bulk_operation_mode, selected_issues>>

(* KeyCode::Char(' ') in the issues pane, in bulk mode                      *)
KeySpaceBulk ==
    /\ BulkKey("toggle selection")
    /\ focused_pane = "Issues"
    /\ bulk_operation_mode
    /\ toggle_issue_selection
    /\ UNCHANGED <<error_message, bulk_operation_mode, bulk_edit_form,
                   load_users_project_id, input_mode>>

(* handle_bulk_form_input: every field of the form is a searchable          *)
(* dropdown, none of them in search mode                                    *)
handle_bulk_form_input(form, key) ==
    LET current == get_current_field(form)
    IN IF current = NULL THEN form
       ELSE CASE key = "Tab" -> next_field(form)
              [] key = "BackTab" -> prev_field(form)
              [] key = "Up" -> navigate_bulk_dropdown(form, current[1].key, -1)
              [] key = "Down" -> navigate_bulk_dropdown(form, current[1].key, 1)
              [] OTHER -> form

(* a key of handle_bulk_editing_key                                         *)
BulkFormKey(name) ==
    /\ KeyThen("refresh_issues")
    /\ input_mode = "BulkEditing"
    /\ Handled(name)
    /\ UNCHANGED <<refresh_issues, create_issue_form, show_create_issue_form,
                   create_new_issue_flag, bulk_operation_mode, selected_issues,
                   load_users_project_id, metavars, error_message,
                   selected_project, loadedvars, projects_list_state,
                   issues_list_state, filtervars, issue_sort_order, groupvars,
                   focused_pane, popupvars>>

BulkFormKeys == {"Tab", "BackTab", "Up", "Down"}

BulkFormKeyInput ==
    /\ BulkFormKey("bulk form input")
    /\ \E key \in BulkFormKeys :
          bulk_edit_form' = IF bulk_edit_form = NULL THEN NULL
                            ELSE Some(handle_bulk_form_input(bulk_edit_form[1], key))
    /\ UNCHANGED <<input_mode, execute_bulk_update_flag>>

(* Ctrl+S                                                                   *)
BulkFormKeyCtrlS ==
    /\ BulkFormKey("bulk form submit")
    /\ execute_bulk_edit

(* KeyCode::Esc                                                             *)
BulkFormKeyEsc ==
    /\ BulkFormKey("bulk form cancel")
    /\ cancel_bulk_edit_form
    /\ UNCHANGED execute_bulk_update_flag

(* ---- SpecBulk ----------------------------------------------------------- *)
(* what load_metadata and load_all_users have left before the loop: with a  *)
(* client each of the three requests has been answered or has failed,       *)
(* without one nothing is loaded                                            *)
Metadata ==
    {<<TRUE, s, p, u>> : s \in {<<>>, <<1, 2>>}, p \in {<<>>, <<1>>},
                         u \in {<<>>, <<CurrentUser>>}}
    \cup {<<FALSE, <<>>, <<>>, <<>>>>}

(* project Alpha selected and shown, the issues pane focused                *)
InitBulk ==
    /\ \E m \in Metadata :
          /\ client = m[1]
          /\ statuses = m[2]
          /\ priorities = m[3]
          /\ app_users = m[4]
          /\ current_user_id = IF m[1] THEN Some(CurrentUser) ELSE NULL
    /\ db \in {CacheOf(GroupIssues(New, InProgress, third)) : third \in {New, Closed}}
    /\ now = 5
    /\ last = NoOp
    /\ pc = "event"
    /\ selected_project = Some(1)
    /\ last_selected_project = Some(1)
    /\ refresh_issues = FALSE
    /\ issues_loading_in_progress = FALSE
    /\ issues_loaded_count = 0
    /\ issues_total_count = 0
    /\ issues_temp_buffer = <<>>
    /\ loading = FALSE
    /\ error_message = NULL
    /\ cycle = NoCycle
    /\ events = 0
    /\ refresh_projects = FALSE
    /\ all_projects = <<>>
    /\ projects_offset = 0
    /\ psync = NoProjectsSync
    /\ projects_list_state = 0
    /\ issues_list_state = 0
    /\ project_filter = <<>>
    /\ issue_filter = <<>>
    /\ my_issues_filter = FALSE
    /\ issue_sort_order = "UpdatedDesc"
    /\ group_issues_by_status = FALSE
    /\ status_groups_collapsed = {}
    /\ focused_pane = "Issues"
    /\ current_issue = NULL
    /\ show_issue_popup = FALSE
    /\ loading_issue = FALSE
    /\ comment_issue_id = NULL
    /\ handled = NotHandled
    /\ Loaded(db)
    /\ create_issue_form = NULL
    /\ show_create_issue_form = FALSE
    /\ create_new_issue_flag = FALSE
    /\ input_mode = "Normal"
    /\ bulk_operation_mode = FALSE
    /\ selected_issues = {}
    /\ bulk_edit_form = NULL
    /\ execute_bulk_update_flag = FALSE
    /\ load_users_project_id = NULL

NextBulk ==
    \/ LoopRefreshIssues
    \/ LoopNextPage
    \/ GetIssuesReturns
    \/ LoopBulkUpdate
    \/ EventTick
    \/ PaneKeyGroup
    \/ PaneKeyDown
    \/ PaneKeyUp
    \/ PaneKeySpace
    \/ KeyBulkMode
    \/ KeySelectAll
    \/ KeyDeselectAll
    \/ KeyBulkEdit
    \/ KeySpaceBulk
    \/ BulkFormKeyInput
    \/ BulkFormKeyCtrlS
    \/ BulkFormKeyEsc

SpecBulk == InitBulk /\ [][NextBulk]_vars

-----------------------------------------------------------------------------
(* Properties of the cursor of the grouped pane and of bulk mode.           *)

(* C31: in status-grouped mode, after every sequence of key events (cursor  *)
(* up and down, Space on a status group, the grouping toggle, a sort        *)
(* change, a filter change), the issue cursor is smaller than               *)
(* get_visible_items_count whenever at least one item is visible: the       *)
(* cursor rests on a header or on an issue.                                 *)
C31_CursorOnVisibleItem ==
    (group_issues_by_status /\ visible_items_count > 0) =>
        /\ issues_list_state < visible_items_count
        /\ item_at(issues_list_state) # NULL \/ header_at(issues_list_state) # NULL

(* Space has collapsed the group of the cursor while the cursor was on an   *)
(* issue of the group, and the cursor is now past the last visible item     *)
C31_CursorPastCollapsedGroup ==
    /\ group_issues_by_status
    /\ handled.by = "space"
    /\ visible_items_count > 0
    /\ issues_list_state >= visible_items_count
    /\ item_at(issues_list_state) = NULL
    /\ header_at(issues_list_state) = NULL

(* the selection after Space in bulk mode, were the issue at the cursor the *)
(* one get_issue_at_cursor finds                                            *)
ToggledAtCursor ==
    IF item_at(issues_list_state) = NULL THEN selected_issues
    ELSE toggled(selected_issues, item_at(issues_list_state)[1].id)

(* C32: in bulk mode, Space in the issues pane adds to the selection or     *)
(* removes from it exactly the id of the issue get_issue_at_cursor finds at *)
(* the cursor, in flat and in status-grouped mode alike, and leaves the     *)
(* selection alone when the cursor rests on a status header.                *)
C32_ToggleTakesIssueAtCursor ==
    [][(pc = "event" /\ handled'.by = "toggle selection") =>
           selected_issues' = ToggledAtCursor]_vars

(* the same of the flat list only                                           *)
C32_FlatToggleTakesIssueAtCursor ==
    [][(pc = "event" /\ handled'.by = "toggle selection" /\ ~group_issues_by_status) =>
           /\ item_at(issues_list_state) # NULL
           /\ selected_issues' = ToggledAtCursor]_vars

(* Space on the header of the first group has selected an issue             *)
C32_HeaderToggledAnIssue ==
    /\ pc = "refresh_issues"
    /\ handled.by = "toggle selection"
    /\ group_issues_by_status
    /\ bulk_operation_mode
    /\ issues_list_state = 0
    /\ header_at(issues_list_state) # NULL
    /\ item_at(issues_list_state) = NULL
    /\ selected_issues = {filtered_issues[1].id}

(* Space on an issue of the grouped pane has selected another issue         *)
C32_OtherIssueToggled ==
    /\ pc = "refresh_issues"
    /\ handled.by = "toggle selection"
    /\ group_issues_by_status
    /\ item_at(issues_list_state) # NULL
    /\ selected_issues # {}
    /\ item_at(issues_list_state)[1].id \notin selected_issues

(* C33: in every reachable state a non-empty selection means bulk mode is   *)
(* on; a step that adds an issue to the selection begins and ends in bulk   *)
(* mode; a step that leaves bulk mode leaves the selection empty; and       *)
(* after execute_bulk_update the selection is empty, bulk mode is off and   *)
(* refresh_issues is set, whether every remote update succeeded or some     *)
(* failed.                                                                  *)
C33_SelectionOnlyInBulkMode ==
    /\ [](selected_issues # {} => bulk_operation_mode)
    /\ [][~(selected_issues' \subseteq selected_issues) =>
             (bulk_operation_mode /\ bulk_operation_mode')]_vars
    /\ [][(bulk_operation_mode /\ ~bulk_operation_mode') => selected_issues' = {}]_vars
    /\ [][(pc = "selection" /\ execute_bulk_update_flag) =>
             /\ handled'.by \in {"bulk update", "bulk update failed"}
             /\ selected_issues' = {}
             /\ ~bulk_operation_mode'
             /\ refresh_issues']_vars

(* a bulk update has run and a remote update of it has failed              *)
C33_Witness ==
    /\ pc = "event"
    /\ handled.by = "bulk update failed"
    /\ selected_issues = {}
    /\ ~bulk_operation_mode
    /\ refresh_issues
    /\ error_message # NULL

====
